---- MODULE Spec2Model ----
(***************************************************************************)
(* dns_bench benchmark engine (src/dns_bench/engine.py).                   *)
(*                                                                         *)
(* BenchmarkEngine.run() turns iterations x providers x domains into jobs, *)
(* runs every job as an asyncio task behind one asyncio.Semaphore, retries *)
(* a job's query with backoff on the retryable failures, and gathers one   *)
(* QueryMeasurement per job in completion order.                           *)
(*                                                                         *)
(* Python's None is the reserved string None, or NoTime where the variable  *)
(* otherwise holds a number; integers are Python ints.                     *)
(***************************************************************************)
EXTENDS Naturals, Integers, Sequences, FiniteSets, TLC

\* ------------------------------------------------------------------ bounds
\* Largest max_retries argument handed to the constructor.
MaxRetries == 1
\* Largest concurrency argument handed to the constructor.
MaxConcurrency == 2
\* Largest max_retries argument of the runs that vary the backoff settings.
MaxBackoffRetries == 2

\* -------------------------------------------------------------------- time
\* Clock readings and the settings that are durations (query_timeout and
\* the backoff_* values, seconds in the source) are counted in ticks of
\* 0.01 s; latency_ms = (perf_counter() - start) * 1000 is milliseconds.
MsPerTick == 10

\* ------------------------------------------------------------------ inputs
None == "None"

\* None in a variable that otherwise holds a clock reading or a duration,
\* none of which is negative (latency_ms: float | None = None).
NoTime == -1

\* A task that has not finished has no result.
NoResult == [ pending |-> TRUE ]

\* The (providers, domains, iterations) arguments the constructor is given.
\* A provider is named by its .name: "sim-flaky" is a SimulatedDNSProvider,
\* "system" the SystemResolverProvider, "custom" any other DNSProvider.
EngineArgs ==
    { [providers |-> <<>>, domains |-> <<"example.com">>, iterations |-> 1],
      [providers |-> <<"custom">>, domains |-> <<>>, iterations |-> 1],
      [providers |-> <<"custom">>, domains |-> <<"example.com">>, iterations |-> -1],
      [providers |-> <<"custom">>, domains |-> <<"example.com">>, iterations |-> 0],
      [providers |-> <<"custom">>, domains |-> <<"example.com">>, iterations |-> 2],
      [providers |-> <<"custom">>, domains |-> <<"example.com", "python.org">>,
       iterations |-> 1],
      [providers |-> <<"sim-flaky", "system">>, domains |-> <<"example.com">>,
       iterations |-> 1],
      [providers |-> <<"custom", "sim-flaky", "system">>, domains |-> <<"example.com">>,
       iterations |-> 1],
      [providers |-> <<"system">>, domains |-> <<"example.com">>, iterations |-> 3] }

\* The (query_timeout, backoff_base, backoff_max, backoff_jitter) arguments
\* of the engine runs: a 0.2 s deadline that is shorter than the first
\* backoff sleep of 0.25 s, and no jitter.
TimingArgs ==
    { [query_timeout |-> 20, backoff_base |-> 25, backoff_max |-> 40,
       backoff_jitter |-> 0] }

\* The same arguments of the runs that vary the backoff settings: a
\* negative base, a ceiling below the base, a ceiling that cuts the second
\* delay, negative, zero and positive jitter.
BackoffArgs ==
    { [query_timeout |-> 20, backoff_base |-> base, backoff_max |-> max,
       backoff_jitter |-> jitter] :
        base \in { -5, 0, 25 }, max \in { 10, 40 }, jitter \in { -3, 0, 10 } }

\* The time a provider takes to answer (return or raise), in ticks.
QueryTimes == { 1 }

\* rng=None: the engine makes its own random.Random(), seeded by the system.
NoSeed == -1

\* The seeds of the random.Random(seed) handed to the engines that are
\* run twice.
Seeds == { 1, 2 }

\* The clocks' reading when the second of two engines is constructed: at the
\* same instant as the first (in another process), or 10 s later.
TwinStarts == { 0, 1000 }

\* No BenchmarkRunner, no ResultsAnalyzer has been made.
NoRunner == [ pc |-> "absent" ]

NoAnalyzer == [ pc |-> "absent" ]

\* No ServiceContainer has been made, detect_resolvers, get_local_resolvers
\* and the local_dns command line have not been called.
NoContainer == [ pc |-> "absent" ]

NoDetection == [ pc |-> "absent" ]

NoLocal == [ pc |-> "absent" ]

NoCli == [ pc |-> "absent" ]

\* No earlier engine has run, and run() has not been called before.
NoTwin == [ engines |-> 1, runs |-> 1, jobs |-> <<>>, returned |-> <<>> ]

\* class -> direct base class, for the exception classes a query can raise.
\* TimeoutError is what asyncio.timeout raises when the deadline elapses
\* (asyncio.TimeoutError is the builtin TimeoutError); gaierror is what the
\* host resolver raises for a name that does not resolve.
BaseClass ==
    [ c \in { "ProviderRateLimitError", "ProviderQueryError", "DNSBenchError",
              "TimeoutError", "gaierror", "OSError", "ValueError", "Exception" } |->
        CASE c = "ProviderRateLimitError" -> "DNSBenchError"
          [] c = "ProviderQueryError"     -> "DNSBenchError"
          [] c = "DNSBenchError"          -> "Exception"
          [] c = "TimeoutError"           -> "OSError"
          [] c = "gaierror"               -> "OSError"
          [] c = "OSError"                -> "Exception"
          [] c = "ValueError"             -> "Exception"
          [] OTHER                        -> None ]

\* isinstance(exc, target) for an exception of class cls.
RECURSIVE IsInstance(_, _)
IsInstance(cls, target) ==
    IF cls = target THEN TRUE
    ELSE IF cls \notin DOMAIN BaseClass THEN FALSE
    ELSE IsInstance(BaseClass[cls], target)

\* ---------------------------------------------------------------- providers
\* An exception is its class and its str().
Exc(cls, msg) == [cls |-> cls, msg |-> msg]

\* asyncio.timeout(self.query_timeout): the deadline elapsed before query()
\* answered (SimulatedDNSProvider does so by sleeping past the deadline).
DeadlineElapsed == Exc("TimeoutError", "")

\* SimulatedDNSProvider.query: what it raises, what it returns.
SimulatedRaises(name, domain) ==
    { Exc("ProviderRateLimitError", name \o " throttled request for " \o domain),
      Exc("ProviderQueryError", name \o " failed to resolve " \o domain) }

SimulatedReturns == { <<"198.51.100.7">> }

\* SystemResolverProvider.query: getaddrinfo's addresses without duplicates,
\* or getaddrinfo's error.
SystemRaises == { Exc("gaierror", "[Errno -2] Name or service not known") }

SystemReturns == { <<"2606:2800:220:1::1", "93.184.216.34">> }

\* Any other DNSProvider: every classified failure, an unclassified one, an
\* empty or a non-empty answer.
CustomRaises ==
    { Exc("ProviderRateLimitError", "throttled"),
      Exc("ProviderQueryError", "SERVFAIL"),
      Exc("DNSBenchError", ""),
      Exc("ValueError", "bad label") }

CustomReturns == { <<>>, <<"198.51.100.7">> }

\* How an attempt of provider.query(domain) can end by raising.
Raises(name, domain) ==
    { DeadlineElapsed } \cup
    ( CASE name = "system" -> SystemRaises
        [] name = "custom" -> CustomRaises
        [] OTHER           -> SimulatedRaises(name, domain) )

\* What an attempt of provider.query(domain) can return within the deadline.
Returns(name) ==
    CASE name = "system" -> SystemReturns
      [] name = "custom" -> CustomReturns
      [] OTHER           -> SimulatedReturns

\* Mocked providers, fully deterministic: what the attempt-th query of a job
\* does is fixed. "mock-throttled" raises a rate limit once and answers from
\* then on, "mock-silent" never answers, "mock-broken" fails to resolve once
\* and raises a ValueError from then on, "mock-limited" always raises a
\* rate limit, "mock-empty" always answers with no address. "mock-flapping"
\* raises a rate limit on its odd attempts and fails to resolve on its even
\* ones, "mock-flipping" does the opposite.
MockedRaises(name, attempt) ==
    CASE name = "mock-throttled" ->
            IF attempt = 1 THEN { Exc("ProviderRateLimitError", "throttled") } ELSE {}
      [] name = "mock-flapping" ->
            IF attempt % 2 = 1 THEN { Exc("ProviderRateLimitError", "throttled") }
            ELSE { Exc("ProviderQueryError", "SERVFAIL") }
      [] name = "mock-flipping" ->
            IF attempt % 2 = 1 THEN { Exc("ProviderQueryError", "SERVFAIL") }
            ELSE { Exc("ProviderRateLimitError", "throttled") }
      [] name = "mock-limited" -> { Exc("ProviderRateLimitError", "throttled") }
      [] name = "mock-silent" -> { DeadlineElapsed }
      [] name = "mock-broken" ->
            IF attempt = 1 THEN { Exc("ProviderQueryError", "SERVFAIL") }
            ELSE { Exc("ValueError", "bad label") }
      [] OTHER -> {}

MockedReturns(name, attempt) ==
    CASE name = "mock-throttled" /\ attempt > 1 -> { <<"198.51.100.7">> }
      [] name = "mock-empty" -> { <<>> }
      [] OTHER -> {}

\* ------------------------------------------------------------------ state
VARIABLES
    engine,        \* the BenchmarkEngine's configuration fields
    enginePc,      \* "rejected" | "ready" | "running" | "returned" | "raised"
    jobs,          \* run(): the job list of _build_jobs, in generation order
    pc,            \* per task: created | waiting | woken | querying | backoff | done
    locals,        \* per task: the locals of _execute_with_retries
    raised,        \* per task: how its current attempt ended: None while the
                   \* query is in flight, "returned", or the exception's class
    sleeps,        \* per task: number of backoff sleeps it has started
    acquires,      \* per task: number of semaphore slots it has acquired
    releases,      \* per task: number of semaphore slots it has released
    result,        \* per task: the QueryMeasurement it returned, or NoResult
    semValue,      \* asyncio.Semaphore._value
    semWaiters,    \* asyncio.Semaphore._waiters (task indices, FIFO)
    completed,     \* as_completed: finished tasks not yet taken by run()
    measurements,  \* run(): its local list
    logged,        \* the logger's sink: the records logged so far
    selfMeasurements, \* engine.measurements
    returned,      \* the list run() returned (enginePc = "returned")
    clock,         \* per task: the clock reading at its latest step past the
                   \* gate; wall is the instant of its first attempt
    starts,        \* per task: the clock readings at the start of its attempts
    delays,        \* per task: the backoff delays it has slept, in order
    doneOrder,     \* the tasks in the order they reached their terminal outcome
    answer,        \* per task: the addresses provider.query returned to it
    rng,           \* self._rng: the seed of the engine's random source, or
                   \* NoSeed for one that was not seeded
    wall,          \* the clocks' reading when the engine was constructed
    twin,          \* what an earlier engine of the same arguments produced
    runner,        \* benchmark.py: the BenchmarkRunner and its thread pool
    analyzer,      \* results.py: the ResultsAnalyzer and what analyze returned
    container,     \* core/di.py: the ServiceContainer
    detection,     \* local_dns/detector.py: a detection pass and its report
    local,         \* resolver.py: a call of get_local_resolvers
    cli            \* local_dns/cli.py: a call of main

\* The state of the modules around the benchmark.
modules == << container, detection, local, cli >>

\* The state that belongs to no engine.
elsewhere == << twin, runner, analyzer, modules >>

vars == << engine, enginePc, jobs, pc, locals, raised, sleeps, acquires, releases,
           result, semValue, semWaiters, completed, measurements, logged,
           selfMeasurements, returned, clock, starts, delays, doneOrder, answer,
           rng, wall, elsewhere >>

Max(a, b) == IF a >= b THEN a ELSE b

\* A mutant of NewSemaphore: one slot too many.
NewSemaphoreOffByOne(value) == value + 1

\* asyncio.Semaphore(value): the initial counter.
NewSemaphore(value) == value

Tasks == 1 .. Len(jobs)

\* ------------------------------------------------------------ construction
\* A mutant of EngineInit: backoff_max is stored as it was given.
EngineInitRawCeiling(providers, domains, iterations, concurrency, max_retries, timing) ==
    [ providers      |-> providers,
      domains        |-> domains,
      iterations     |-> iterations,
      concurrency    |-> Max(1, concurrency),
      query_timeout  |-> timing.query_timeout,
      max_retries    |-> Max(0, max_retries),
      backoff_base   |-> Max(0, timing.backoff_base),
      backoff_max    |-> timing.backoff_max,
      backoff_jitter |-> Max(0, timing.backoff_jitter) ]

\* BenchmarkEngine.__init__: the stored configuration.
EngineInit(providers, domains, iterations, concurrency, max_retries, timing) ==
    [ providers      |-> providers,
      domains        |-> domains,
      iterations     |-> iterations,
      concurrency    |-> Max(1, concurrency),
      query_timeout  |-> timing.query_timeout,
      max_retries    |-> Max(0, max_retries),
      backoff_base   |-> Max(0, timing.backoff_base),
      backoff_max    |-> Max(Max(0, timing.backoff_base), timing.backoff_max),
      backoff_jitter |-> Max(0, timing.backoff_jitter) ]

\* A mutant of ConstructorRejects: only the provider list is validated.
ConstructorRejectsProvidersOnly(providers, domains) == providers = <<>>

\* __init__ raises ValueError for an empty provider or domain list.
ConstructorRejects(providers, domains) ==
    providers = <<>> \/ domains = <<>>

\* The state after BenchmarkEngine(...) with the given arguments.
Constructed(args, concurrency, max_retries, timing) ==
    /\ engine = EngineInit(args.providers, args.domains, args.iterations,
                           concurrency, max_retries, timing)
    /\ enginePc = IF ConstructorRejects(args.providers, args.domains)
                  THEN "rejected" ELSE "ready"
    /\ jobs = <<>>
    /\ pc = <<>>
    /\ locals = <<>>
    /\ raised = <<>>
    /\ sleeps = <<>>
    /\ acquires = <<>>
    /\ releases = <<>>
    /\ result = <<>>
    /\ semValue = NewSemaphore(engine.concurrency)
    /\ semWaiters = <<>>
    /\ completed = <<>>
    /\ measurements = <<>>
    /\ logged = <<>>
    /\ selfMeasurements = <<>>
    /\ returned = <<>>
    /\ clock = <<>>
    /\ starts = <<>>
    /\ delays = <<>>
    /\ doneOrder = <<>>
    /\ answer = <<>>

\* The engine is all there is: no earlier engine, no BenchmarkRunner, no
\* ResultsAnalyzer.
Unloaded ==
    /\ container = NoContainer
    /\ detection = NoDetection
    /\ local = NoLocal
    /\ cli = NoCli

Alone ==
    /\ twin = NoTwin
    /\ runner = NoRunner
    /\ analyzer = NoAnalyzer
    /\ Unloaded

Init ==
    /\ \E args \in EngineArgs,
          concurrency \in 0 .. MaxConcurrency,
          max_retries \in -1 .. MaxRetries,
          timing \in TimingArgs :
            Constructed(args, concurrency, max_retries, timing)
    /\ rng = NoSeed
    /\ wall = 0
    /\ Alone

\* ------------------------------------------------------------ _build_jobs
\* A mutant of Shuffled: every position gets the element drawn first.
ShuffledRepeating(xs, p) == [ i \in 1 .. Len(xs) |-> xs[p[1]] ]

\* rng.shuffle(xs): xs rearranged by the permutation p of its positions.
Shuffled(xs, p) == [ i \in 1 .. Len(xs) |-> xs[p[i]] ]

\* for domain in domains: jobs.append((iteration, provider, domain))
RECURSIVE ForDomains(_, _, _)
ForDomains(iteration, provider, domains) ==
    IF domains = <<>> THEN <<>>
    ELSE << [iteration |-> iteration, provider |-> provider, domain |-> Head(domains)] >>
         \o ForDomains(iteration, provider, Tail(domains))

\* A mutant of ForProviders: providers and domains paired up (zip) instead
\* of crossed.
RECURSIVE ForProvidersZipped(_, _, _)
ForProvidersZipped(iteration, providers, domains) ==
    IF providers = <<>> \/ domains = <<>> THEN <<>>
    ELSE ForDomains(iteration, Head(providers), <<Head(domains)>>)
         \o ForProvidersZipped(iteration, Tail(providers), Tail(domains))

\* for provider in providers: for domain in domains: ...
RECURSIVE ForProviders(_, _, _)
ForProviders(iteration, providers, domains) ==
    IF providers = <<>> THEN <<>>
    ELSE ForDomains(iteration, Head(providers), domains)
         \o ForProviders(iteration, Tail(providers), domains)

\* for iteration in range(1, self.iterations + 1), from `iteration` on;
\* shuf[i] is the pair of permutations the two shuffles of iteration i draw.
RECURSIVE ForIterations(_, _)
ForIterations(iteration, shuf) ==
    IF iteration > engine.iterations THEN <<>>
    ELSE ForProviders(iteration,
                      Shuffled(engine.providers, shuf[iteration][1]),
                      Shuffled(engine.domains, shuf[iteration][2]))
         \o ForIterations(iteration + 1, shuf)

\* A mutant of BuildJobs: the loop body runs once before the range is
\* looked at, so that a range of no iteration still makes one pass.
BuildJobsAtLeastOnce(shuf) ==
    IF engine.iterations < 1
    THEN ForProviders(1, engine.providers, engine.domains)
    ELSE ForIterations(1, shuf)

\* _build_jobs: the jobs of all iterations, in generation order.
BuildJobs(shuf) == ForIterations(1, shuf)

\* The permutations the shuffles of one _build_jobs call can draw.
ShuffleChoices ==
    [ 1 .. engine.iterations ->
        Permutations(1 .. Len(engine.providers))
            \X Permutations(1 .. Len(engine.domains)) ]

\* The permutation of 1 .. n that the k-th shuffle of random.Random(seed)
\* makes: a function of seed, k and n alone (the rotation by seed + k stands
\* for the generator's).
SeededPermutation(seed, k, n) == [ i \in 1 .. n |-> ((i + seed + k - 1) % n) + 1 ]

\* What the shuffles of the first _build_jobs call of an engine seeded with
\* seed draw: iteration i makes the shuffles 2i - 1 and 2i of the source.
SeededShuffles(seed) ==
    [ i \in 1 .. engine.iterations |->
        << SeededPermutation(seed, 2 * i - 1, Len(engine.providers)),
           SeededPermutation(seed, 2 * i, Len(engine.domains)) >> ]

\* A mutant of ShuffleDraws: the shuffles draw from the process-wide random
\* module, whatever source the engine was given.
ShuffleDrawsGlobal == ShuffleChoices

\* self._rng.shuffle(...) in _build_jobs: what the engine's random source
\* can draw.
ShuffleDraws == IF rng = NoSeed THEN ShuffleChoices ELSE { SeededShuffles(rng) }

\* A mutant of EngineAfterBuildJobs: the shuffles act on self.providers and
\* self.domains themselves, which are left as the last iteration shuffled
\* them.
EngineAfterBuildJobsInPlace(shuf) ==
    IF engine.iterations < 1 THEN engine
    ELSE [engine EXCEPT !.providers = Shuffled(@, shuf[engine.iterations][1]),
                        !.domains = Shuffled(@, shuf[engine.iterations][2])]

\* providers = self.providers[:]; domains = self.domains[:]: every
\* iteration shuffles copies, and _build_jobs leaves the engine as it was.
EngineAfterBuildJobs(shuf) == engine

\* A mutant of FreshLocals: addresses starts out with a placeholder entry.
FreshLocalsPlaceholder ==
    [ attempts |-> 0, retries |-> 0, addresses |-> <<"0.0.0.0">>,
      start |-> NoTime, started_at |-> NoTime, latency_ms |-> NoTime,
      success |-> FALSE, error_type |-> None, error_message |-> None ]

\* The locals of _execute_with_retries before its loop (NoTime, None: not
\* bound yet).
FreshLocals ==
    [ attempts |-> 0, retries |-> 0, addresses |-> <<>>,
      start |-> NoTime, started_at |-> NoTime, latency_ms |-> NoTime,
      success |-> FALSE, error_type |-> None, error_message |-> None ]

\* run(), up to its first await: build the jobs and create one task per job.
Run ==
    /\ enginePc = "ready"
    /\ \E shuf \in ShuffleDraws :
        LET js == BuildJobs(shuf) IN
        /\ jobs' = js
        /\ engine' = EngineAfterBuildJobs(shuf)
        /\ pc' = [ t \in 1 .. Len(js) |-> "created" ]
        /\ locals' = [ t \in 1 .. Len(js) |-> FreshLocals ]
        /\ raised' = [ t \in 1 .. Len(js) |-> None ]
        /\ sleeps' = [ t \in 1 .. Len(js) |-> 0 ]
        /\ acquires' = [ t \in 1 .. Len(js) |-> 0 ]
        /\ releases' = [ t \in 1 .. Len(js) |-> 0 ]
        /\ result' = [ t \in 1 .. Len(js) |-> NoResult ]
        /\ clock' = [ t \in 1 .. Len(js) |-> wall ]
        /\ answer' = [ t \in 1 .. Len(js) |-> <<>> ]
        /\ starts' = [ t \in 1 .. Len(js) |-> <<>> ]
        /\ delays' = [ t \in 1 .. Len(js) |-> <<>> ]
    /\ measurements' = <<>>
    /\ completed' = <<>>
    /\ doneOrder' = <<>>
    /\ enginePc' = "running"
    /\ UNCHANGED << elsewhere, rng, wall >>
    /\ UNCHANGED << semValue, semWaiters, logged, selfMeasurements, returned >>

\* ------------------------------------------------------- asyncio.Semaphore
\* Semaphore.locked(): no free slot, or somebody is already queued (no waiter
\* is ever cancelled: run() cancels nothing).
Locked == semValue = 0 \/ semWaiters # <<>>

\* The first queued task whose future is not done yet, or 0.
RECURSIVE FirstPending(_, _)
FirstPending(waiters, pcs) ==
    IF waiters = <<>> THEN 0
    ELSE IF pcs[Head(waiters)] = "waiting" THEN Head(waiters)
    ELSE FirstPending(Tail(waiters), pcs)

\* Semaphore._wake_up_next() on counter `value`: the slot goes to the first
\* pending waiter, whose future is set.
WakeUpNext(value, waiters, pcs) ==
    LET w == FirstPending(waiters, pcs) IN
    IF w = 0 THEN [value |-> value, pc |-> pcs]
    ELSE [value |-> value - 1, pc |-> [pcs EXCEPT ![w] = "woken"]]

\* A mutant of SemRelease: the counter is raised but nobody is woken.
SemReleaseNoWakeUp(value, waiters, pcs) == [value |-> value + 1, pc |-> pcs]

\* Semaphore.release(): self._value += 1; self._wake_up_next().
SemRelease(value, waiters, pcs) == WakeUpNext(value + 1, waiters, pcs)

\* waiters.remove(fut)
RECURSIVE Remove(_, _)
Remove(waiters, t) ==
    IF waiters = <<>> THEN <<>>
    ELSE IF Head(waiters) = t THEN Tail(waiters)
    ELSE <<Head(waiters)>> \o Remove(Tail(waiters), t)

\* --------------------------------------------------------- _compute_backoff
\* 2**retries
RECURSIVE Pow2(_)
Pow2(n) == IF n = 0 THEN 1 ELSE 2 * Pow2(n - 1)

Min(a, b) == IF a <= b THEN a ELSE b

\* self._rng.uniform(a, b): some value of [a, b); its least, a middle and its
\* greatest tick stand for the interval.
Uniform(a, b) == IF b > a THEN { a, a + (b - a) \div 2, b - 1 } ELSE { a }

\* A mutant of ComputeBackoff: the exponent is the retry count after its
\* increment.
ComputeBackoffNextExponent(retries, draw) ==
    LET exponential == engine.backoff_base * Pow2(retries + 1)
        sleep_for   == Min(engine.backoff_max, exponential)
    IN IF engine.backoff_jitter # 0 THEN sleep_for + draw ELSE sleep_for

\* A mutant of ComputeBackoff: the ceiling is applied to the base only.
ComputeBackoffCapsBase(retries, draw) ==
    LET sleep_for == Min(engine.backoff_max, engine.backoff_base) * Pow2(retries)
    IN IF engine.backoff_jitter # 0 THEN sleep_for + draw ELSE sleep_for

\* _compute_backoff(retries); draw is what self._rng.uniform(0, jitter)
\* returns when it is called.
ComputeBackoff(retries, draw) ==
    LET exponential == engine.backoff_base * Pow2(retries)
        sleep_for   == Min(engine.backoff_max, exponential)
    IN IF engine.backoff_jitter # 0 THEN sleep_for + draw ELSE sleep_for

\* ------------------------------------------------- _execute_with_retries
\* A mutant of BeginAttempt: the error fields are set once before the loop
\* and not reset by each attempt.
BeginAttemptStale(l, now) ==
    [l EXCEPT !.attempts = @ + 1, !.start = now, !.started_at = now,
              !.latency_ms = NoTime, !.success = FALSE]

\* A mutant of BeginAttempt: start is read once, by the first attempt.
BeginAttemptFirstStart(l, now) ==
    [l EXCEPT !.attempts = @ + 1, !.start = IF l.attempts = 0 THEN now ELSE @,
              !.started_at = now,
              !.latency_ms = NoTime, !.success = FALSE,
              !.error_type = None, !.error_message = None]

\* The top of the while loop at clock reading now: attempts += 1, start and
\* started_at are read, and the per-attempt locals are reset.
BeginAttempt(l, now) ==
    [l EXCEPT !.attempts = @ + 1, !.start = now, !.started_at = now,
              !.latency_ms = NoTime, !.success = FALSE,
              !.error_type = None, !.error_message = None]

\* A mutant of Deadline: one deadline for the whole job, counted from its
\* first attempt.
DeadlineOfJob(t) == starts[t][1] + engine.query_timeout

\* async with asyncio.timeout(self.query_timeout), entered at the start of
\* the attempt: the instant at which the attempt is cut off.
Deadline(t) == locals[t].start + engine.query_timeout

\* The instants at which the query of task t can answer (return or raise):
\* any answer time that still lies before the deadline.
AnsweredAt(t) ==
    { now \in { clock[t] + d : d \in QueryTimes } : now < Deadline(t) }

\* The instants at which exception exc can surface in task t: the deadline
\* for asyncio.timeout's TimeoutError (at once if it has passed already), an
\* answer time for what the provider raises.
RaisedAt(t, exc) ==
    IF exc = DeadlineElapsed THEN { Max(clock[t], Deadline(t)) } ELSE AnsweredAt(t)

\* latency_ms = (time.perf_counter() - start) * 1000
LatencyMs(start, now) == (now - start) * MsPerTick

\* A mutant of ExceptClause: the retrying clause also lists Exception.
ExceptClauseBroad(cls) ==
    IF IsInstance(cls, "ProviderRateLimitError") THEN "rate_limit"
    ELSE IF IsInstance(cls, "TimeoutError") THEN "timeout"
    ELSE IF IsInstance(cls, "Exception") THEN "query_error"
    ELSE "uncaught"

\* Which except clause of the try statement catches an exception of class
\* cls: the first clause, in source order, whose class matches.
ExceptClause(cls) ==
    IF IsInstance(cls, "ProviderRateLimitError") THEN "rate_limit"
    ELSE IF IsInstance(cls, "TimeoutError") THEN "timeout"
    ELSE IF IsInstance(cls, "ProviderQueryError") \/ IsInstance(cls, "DNSBenchError")
         THEN "query_error"
    ELSE IF IsInstance(cls, "Exception") THEN "unexpected"
    ELSE "uncaught"

\* A mutant of RetriesExhausted: the last retry of the budget is not made.
RetriesExhaustedEarly(retries) == retries + 1 >= engine.max_retries

\* A mutant of RetriesExhausted: > instead of >=.
RetriesExhaustedOffByOne(retries) == retries > engine.max_retries

\* if retries >= self.max_retries: return the failed measurement
RetriesExhausted(retries) == retries >= engine.max_retries

\* retries += 1 after the backoff sleep
NextRetries(retries) == retries + 1

\* f"Timed out querying {domain} via {provider.name}"
TimeoutMessage(domain, provider) ==
    "Timed out querying " \o domain \o " via " \o provider

\* QueryMeasurement(...) as built at every return of _execute_with_retries,
\* at clock reading now: finished_at=datetime.now(timezone.utc).
Measurement(t, l, success, now) ==
    [ provider      |-> jobs[t].provider,
      domain        |-> jobs[t].domain,
      iteration     |-> jobs[t].iteration,
      attempts      |-> l.attempts,
      retry_count   |-> l.retries,
      success       |-> success,
      started_at    |-> l.started_at,
      finished_at   |-> now,
      latency_ms    |-> l.latency_ms,
      error_type    |-> l.error_type,
      error_message |-> l.error_message,
      addresses     |-> l.addresses ]

\* What a task that ends by raising leaves behind instead of a measurement.
TaskException(cls) == [ exception |-> cls ]

IsException(r) == "exception" \in DOMAIN r

\* A mutant of Finish: a failed measurement is returned without leaving
\* `async with`, so that only a success gives its slot back.
FinishHoldingOnFailure(t, l, m) ==
    LET sem == IF m.success
               THEN SemRelease(semValue, semWaiters, [pc EXCEPT ![t] = "done"])
               ELSE [value |-> semValue, pc |-> [pc EXCEPT ![t] = "done"]] IN
    /\ pc' = sem.pc
    /\ semValue' = sem.value
    /\ locals' = [locals EXCEPT ![t] = l]
    /\ result' = [result EXCEPT ![t] = m]
    /\ releases' = [releases EXCEPT ![t] = IF m.success THEN @ + 1 ELSE @]
    /\ completed' = Append(completed, t)
    /\ doneOrder' = Append(doneOrder, t)
    /\ UNCHANGED << semWaiters, acquires, sleeps, delays >>

\* A return out of `async with self._semaphore`: the slot is released, the
\* task finishes with outcome m and as_completed queues it.
Finish(t, l, m) ==
    LET sem == SemRelease(semValue, semWaiters, [pc EXCEPT ![t] = "done"]) IN
    /\ pc' = sem.pc
    /\ semValue' = sem.value
    /\ locals' = [locals EXCEPT ![t] = l]
    /\ result' = [result EXCEPT ![t] = m]
    /\ releases' = [releases EXCEPT ![t] = @ + 1]
    /\ completed' = Append(completed, t)
    /\ doneOrder' = Append(doneOrder, t)
    /\ UNCHANGED << semWaiters, acquires, sleeps, delays >>

\* A mutant of Sleep: the slot is given back for the time of the sleep.
SleepReleasing(t, l) ==
    LET sem == SemRelease(semValue, semWaiters, [pc EXCEPT ![t] = "backoff"]) IN
    /\ pc' = sem.pc
    /\ semValue' = sem.value
    /\ locals' = [locals EXCEPT ![t] = l]
    /\ sleeps' = [sleeps EXCEPT ![t] = @ + 1]
    /\ releases' = [releases EXCEPT ![t] = @ + 1]
    /\ \E draw \in Uniform(0, engine.backoff_jitter) :
        delays' = [delays EXCEPT ![t] = Append(@, ComputeBackoff(l.retries, draw))]
    /\ UNCHANGED << semWaiters, acquires, result, completed, doneOrder >>

\* await asyncio.sleep(self._compute_backoff(retries)): the task sleeps,
\* still inside `async with`, for the delay _compute_backoff returns.
Sleep(t, l) ==
    /\ pc' = [pc EXCEPT ![t] = "backoff"]
    /\ locals' = [locals EXCEPT ![t] = l]
    /\ sleeps' = [sleeps EXCEPT ![t] = @ + 1]
    /\ \E draw \in Uniform(0, engine.backoff_jitter) :
        delays' = [delays EXCEPT ![t] = Append(@, ComputeBackoff(l.retries, draw))]
    /\ UNCHANGED << semValue, semWaiters, acquires, releases, result, completed,
                    doneOrder >>

\* _run_job, first step of the task: `async with self._semaphore` either
\* takes a free slot and runs into the first query, or queues the task.
\* Tasks take their first step in creation order.
StartJob(t) ==
    /\ enginePc = "running"
    /\ pc[t] = "created"
    /\ \A u \in 1 .. t - 1 : pc[u] # "created"
    /\ IF ~Locked
       THEN /\ semValue' = semValue - 1
            /\ acquires' = [acquires EXCEPT ![t] = @ + 1]
            /\ pc' = [pc EXCEPT ![t] = "querying"]
            /\ locals' = [locals EXCEPT ![t] = BeginAttempt(@, clock[t])]
            /\ starts' = [starts EXCEPT ![t] = Append(@, clock[t])]
            /\ UNCHANGED semWaiters
       ELSE /\ semWaiters' = Append(semWaiters, t)
            /\ pc' = [pc EXCEPT ![t] = "waiting"]
            /\ UNCHANGED << semValue, acquires, locals, starts >>
    /\ UNCHANGED << elsewhere, rng, wall, answer >>
    /\ UNCHANGED << engine, enginePc, jobs, raised, sleeps, releases, result, completed,
                    measurements, logged, selfMeasurements, returned, clock, delays,
                    doneOrder >>

\* A queued task whose future was set resumes inside acquire(): it leaves
\* the queue, passes a spare slot on, and runs into its first query.
ResumeJob(t) ==
    /\ enginePc = "running"
    /\ pc[t] = "woken"
    /\ LET ws == Remove(semWaiters, t)
           p1 == [pc EXCEPT ![t] = "querying"]
           sem == IF semValue > 0 THEN WakeUpNext(semValue, ws, p1)
                  ELSE [value |-> semValue, pc |-> p1]
       IN /\ semWaiters' = ws
          /\ semValue' = sem.value
          /\ pc' = sem.pc
    /\ acquires' = [acquires EXCEPT ![t] = @ + 1]
    /\ locals' = [locals EXCEPT ![t] = BeginAttempt(@, clock[t])]
    /\ starts' = [starts EXCEPT ![t] = Append(@, clock[t])]
    /\ UNCHANGED << elsewhere, rng, wall, answer >>
    /\ UNCHANGED << engine, enginePc, jobs, raised, sleeps, releases, result, completed,
                    measurements, logged, selfMeasurements, returned, clock, delays,
                    doneOrder >>

\* A mutant of ListOf: the addresses come out in reverse order.
ListOfReversed(xs) == [ i \in 1 .. Len(xs) |-> xs[Len(xs) + 1 - i] ]

\* list(...) of what provider.query returned: a new list of the same
\* elements in the same order.
ListOf(xs) == [ i \in 1 .. Len(xs) |-> xs[i] ]

\* provider.query returns addrs within the deadline (lines 132-149).
QueryReturns(t, addrs) ==
    /\ enginePc = "running"
    /\ pc[t] = "querying"
    /\ raised' = [raised EXCEPT ![t] = "returned"]
    /\ answer' = [answer EXCEPT ![t] = addrs]
    /\ \E now \in AnsweredAt(t) :
        LET l == [locals[t] EXCEPT
                    !.addresses = ListOf(addrs),
                    !.latency_ms = LatencyMs(locals[t].start, now),
                    !.success = TRUE]
        IN /\ clock' = [clock EXCEPT ![t] = now]
           /\ Finish(t, l, Measurement(t, l, l.success, now))
    /\ UNCHANGED << elsewhere, rng, wall >>
    /\ UNCHANGED << engine, enginePc, jobs, measurements, logged,
                    selfMeasurements, returned, starts >>

\* A mutant of OnRateLimit: error_type is the exception's class name.
OnRateLimitClassName(t, exc) ==
    /\ enginePc = "running"
    /\ pc[t] = "querying"
    /\ ExceptClause(exc.cls) = "rate_limit"
    /\ raised' = [raised EXCEPT ![t] = exc.cls]
    /\ \E now \in RaisedAt(t, exc) :
        LET l == [locals[t] EXCEPT
                    !.latency_ms = LatencyMs(locals[t].start, now),
                    !.error_type = exc.cls,
                    !.error_message = exc.msg]
        IN /\ clock' = [clock EXCEPT ![t] = now]
           /\ IF RetriesExhausted(l.retries)
              THEN Finish(t, l, Measurement(t, l, FALSE, now))
              ELSE Sleep(t, l)
    /\ UNCHANGED << elsewhere, rng, wall, answer >>
    /\ UNCHANGED << engine, enginePc, jobs, measurements, logged,
                    selfMeasurements, returned, starts >>

\* except ProviderRateLimitError (lines 150-171).
OnRateLimit(t, exc) ==
    /\ enginePc = "running"
    /\ pc[t] = "querying"
    /\ ExceptClause(exc.cls) = "rate_limit"
    /\ raised' = [raised EXCEPT ![t] = exc.cls]
    /\ \E now \in RaisedAt(t, exc) :
        LET l == [locals[t] EXCEPT
                    !.latency_ms = LatencyMs(locals[t].start, now),
                    !.error_type = "rate_limit",
                    !.error_message = exc.msg]
        IN /\ clock' = [clock EXCEPT ![t] = now]
           /\ IF RetriesExhausted(l.retries)
              THEN Finish(t, l, Measurement(t, l, FALSE, now))
              ELSE Sleep(t, l)
    /\ UNCHANGED << elsewhere, rng, wall, answer >>
    /\ UNCHANGED << engine, enginePc, jobs, measurements, logged,
                    selfMeasurements, returned, starts >>

\* A mutant of OnTimeout: the timed-out attempt is counted as a retry.
OnTimeoutCounting(t, exc) ==
    /\ enginePc = "running"
    /\ pc[t] = "querying"
    /\ ExceptClause(exc.cls) = "timeout"
    /\ raised' = [raised EXCEPT ![t] = exc.cls]
    /\ \E now \in RaisedAt(t, exc) :
        LET l == [locals[t] EXCEPT
                    !.latency_ms = LatencyMs(locals[t].start, now),
                    !.retries = @ + 1,
                    !.error_type = "timeout",
                    !.error_message = TimeoutMessage(jobs[t].domain, jobs[t].provider)]
        IN /\ clock' = [clock EXCEPT ![t] = now]
           /\ Finish(t, l, Measurement(t, l, FALSE, now))
    /\ UNCHANGED << elsewhere, rng, wall, answer >>
    /\ UNCHANGED << engine, enginePc, jobs, measurements, logged,
                    selfMeasurements, returned, starts >>

\* A mutant of OnTimeout: a timeout is retried like a rate limit.
OnTimeoutRetrying(t, exc) ==
    /\ enginePc = "running"
    /\ pc[t] = "querying"
    /\ ExceptClause(exc.cls) = "timeout"
    /\ raised' = [raised EXCEPT ![t] = exc.cls]
    /\ \E now \in RaisedAt(t, exc) :
        LET l == [locals[t] EXCEPT
                    !.latency_ms = LatencyMs(locals[t].start, now),
                    !.error_type = "timeout",
                    !.error_message = TimeoutMessage(jobs[t].domain, jobs[t].provider)]
        IN /\ clock' = [clock EXCEPT ![t] = now]
           /\ IF RetriesExhausted(l.retries)
              THEN Finish(t, l, Measurement(t, l, FALSE, now))
              ELSE Sleep(t, l)
    /\ UNCHANGED << elsewhere, rng, wall, answer >>
    /\ UNCHANGED << engine, enginePc, jobs, measurements, logged,
                    selfMeasurements, returned, starts >>

\* except asyncio.TimeoutError (lines 172-190): the deadline of
\* asyncio.timeout elapsed, or the provider raised a TimeoutError itself.
OnTimeout(t, exc) ==
    /\ enginePc = "running"
    /\ pc[t] = "querying"
    /\ ExceptClause(exc.cls) = "timeout"
    /\ raised' = [raised EXCEPT ![t] = exc.cls]
    /\ \E now \in RaisedAt(t, exc) :
        LET l == [locals[t] EXCEPT
                    !.latency_ms = LatencyMs(locals[t].start, now),
                    !.error_type = "timeout",
                    !.error_message = TimeoutMessage(jobs[t].domain, jobs[t].provider)]
        IN /\ clock' = [clock EXCEPT ![t] = now]
           /\ Finish(t, l, Measurement(t, l, FALSE, now))
    /\ UNCHANGED << elsewhere, rng, wall, answer >>
    /\ UNCHANGED << engine, enginePc, jobs, measurements, logged,
                    selfMeasurements, returned, starts >>

\* A mutant of OnQueryError: a query failure ends the job at once.
OnQueryErrorNoRetry(t, exc) ==
    /\ enginePc = "running"
    /\ pc[t] = "querying"
    /\ ExceptClause(exc.cls) = "query_error"
    /\ raised' = [raised EXCEPT ![t] = exc.cls]
    /\ \E now \in RaisedAt(t, exc) :
        LET l == [locals[t] EXCEPT
                    !.latency_ms = LatencyMs(locals[t].start, now),
                    !.error_type = exc.cls,
                    !.error_message = exc.msg]
        IN /\ clock' = [clock EXCEPT ![t] = now]
           /\ Finish(t, l, Measurement(t, l, FALSE, now))
    /\ UNCHANGED << elsewhere, rng, wall, answer >>
    /\ UNCHANGED << engine, enginePc, jobs, measurements, logged,
                    selfMeasurements, returned, starts >>

\* except (ProviderQueryError, DNSBenchError) (lines 191-212).
OnQueryError(t, exc) ==
    /\ enginePc = "running"
    /\ pc[t] = "querying"
    /\ ExceptClause(exc.cls) = "query_error"
    /\ raised' = [raised EXCEPT ![t] = exc.cls]
    /\ \E now \in RaisedAt(t, exc) :
        LET l == [locals[t] EXCEPT
                    !.latency_ms = LatencyMs(locals[t].start, now),
                    !.error_type = exc.cls,
                    !.error_message = exc.msg]
        IN /\ clock' = [clock EXCEPT ![t] = now]
           /\ IF RetriesExhausted(l.retries)
              THEN Finish(t, l, Measurement(t, l, FALSE, now))
              ELSE Sleep(t, l)
    /\ UNCHANGED << elsewhere, rng, wall, answer >>
    /\ UNCHANGED << engine, enginePc, jobs, measurements, logged,
                    selfMeasurements, returned, starts >>

\* A mutant of OnUnexpected: the clause re-raises, so the exception ends
\* the task.
OnUnexpectedReraising(t, exc) ==
    /\ enginePc = "running"
    /\ pc[t] = "querying"
    /\ ExceptClause(exc.cls) = "unexpected"
    /\ raised' = [raised EXCEPT ![t] = exc.cls]
    /\ \E now \in RaisedAt(t, exc) :
        LET l == [locals[t] EXCEPT
                    !.latency_ms = LatencyMs(locals[t].start, now),
                    !.error_type = exc.cls,
                    !.error_message = exc.msg]
        IN /\ clock' = [clock EXCEPT ![t] = now]
           /\ Finish(t, l, TaskException(exc.cls))
    /\ UNCHANGED << elsewhere, rng, wall, answer >>
    /\ UNCHANGED << engine, enginePc, jobs, measurements, logged,
                    selfMeasurements, returned, starts >>

\* except Exception (lines 213-231).
OnUnexpected(t, exc) ==
    /\ enginePc = "running"
    /\ pc[t] = "querying"
    /\ ExceptClause(exc.cls) = "unexpected"
    /\ raised' = [raised EXCEPT ![t] = exc.cls]
    /\ \E now \in RaisedAt(t, exc) :
        LET l == [locals[t] EXCEPT
                    !.latency_ms = LatencyMs(locals[t].start, now),
                    !.error_type = exc.cls,
                    !.error_message = exc.msg]
        IN /\ clock' = [clock EXCEPT ![t] = now]
           /\ Finish(t, l, Measurement(t, l, FALSE, now))
    /\ UNCHANGED << elsewhere, rng, wall, answer >>
    /\ UNCHANGED << engine, enginePc, jobs, measurements, logged,
                    selfMeasurements, returned, starts >>

\* A mutant of BackoffElapses: only a retry after a rate limit is counted,
\* so that the other failures have a budget of their own.
BackoffElapsesOwnBudget(t) ==
    LET now == clock[t] + delays[t][Len(delays[t])] IN
    /\ enginePc = "running"
    /\ pc[t] = "backoff"
    /\ pc' = [pc EXCEPT ![t] = "querying"]
    /\ clock' = [clock EXCEPT ![t] = now]
    /\ locals' = [locals EXCEPT
                    ![t] = BeginAttempt([@ EXCEPT !.retries =
                                IF raised[t] = "ProviderRateLimitError"
                                THEN NextRetries(@) ELSE @], now)]
    /\ starts' = [starts EXCEPT ![t] = Append(@, now)]
    /\ raised' = [raised EXCEPT ![t] = None]
    /\ UNCHANGED << elsewhere, rng, wall, answer >>
    /\ UNCHANGED << engine, enginePc, jobs, sleeps, acquires, releases, result,
                    semValue, semWaiters, completed, measurements, logged,
                    selfMeasurements, returned, delays, doneOrder >>

\* The backoff sleep ends after its delay: retries += 1 and the loop starts
\* the next attempt.
BackoffElapses(t) ==
    LET now == clock[t] + delays[t][Len(delays[t])] IN
    /\ enginePc = "running"
    /\ pc[t] = "backoff"
    /\ pc' = [pc EXCEPT ![t] = "querying"]
    /\ clock' = [clock EXCEPT ![t] = now]
    /\ locals' = [locals EXCEPT
                    ![t] = BeginAttempt([@ EXCEPT !.retries = NextRetries(@)], now)]
    /\ starts' = [starts EXCEPT ![t] = Append(@, now)]
    /\ raised' = [raised EXCEPT ![t] = None]
    /\ UNCHANGED << elsewhere, rng, wall, answer >>
    /\ UNCHANGED << engine, enginePc, jobs, sleeps, acquires, releases, result,
                    semValue, semWaiters, completed, measurements, logged,
                    selfMeasurements, returned, delays, doneOrder >>

\* ------------------------------------------------------------------- run()
\* QueryMeasurement.to_dict(): the twelve fields under their own names.
ToDict(m) ==
    [ provider      |-> m.provider,
      domain        |-> m.domain,
      iteration     |-> m.iteration,
      attempts      |-> m.attempts,
      retry_count   |-> m.retry_count,
      success       |-> m.success,
      started_at    |-> m.started_at,
      finished_at   |-> m.finished_at,
      latency_ms    |-> m.latency_ms,
      error_type    |-> m.error_type,
      error_message |-> m.error_message,
      addresses     |-> m.addresses ]

\* self.logger.info("dns_bench.measurement %s", json.dumps(result.to_dict(),
\* sort_keys=True)): the record's message and the dictionary it carries.
LogRecord(m) == [ message |-> "dns_bench.measurement", payload |-> ToDict(m) ]

\* A mutant of Collect: the tasks are awaited in creation order, as
\* asyncio.gather would deliver them.
CollectInCreationOrder ==
    LET t == Len(measurements) + 1 IN
    /\ enginePc = "running"
    /\ t \in Tasks
    /\ pc[t] = "done"
    /\ measurements' = Append(measurements, result[t])
    /\ logged' = Append(logged, LogRecord(result[t]))
    /\ completed' = Remove(completed, t)
    /\ UNCHANGED << elsewhere, rng, wall, answer >>
    /\ UNCHANGED << engine, enginePc, jobs, pc, locals, raised, sleeps, acquires,
                    releases, result, semValue, semWaiters, selfMeasurements,
                    returned, clock, starts, delays, doneOrder >>

\* A mutant of Collect: the measurement is not logged in the loop.
CollectSilently ==
    /\ enginePc = "running"
    /\ completed # <<>>
    /\ measurements' = Append(measurements, result[Head(completed)])
    /\ completed' = Tail(completed)
    /\ UNCHANGED << elsewhere, rng, wall, answer >>
    /\ UNCHANGED << engine, enginePc, jobs, pc, locals, raised, sleeps, acquires,
                    releases, result, semValue, semWaiters, selfMeasurements,
                    returned, clock, starts, delays, doneOrder, logged >>

\* A mutant of Collect: run() stamps the measurement it gathers with the
\* time of the gathering, overwriting its finished_at.
CollectStamping ==
    LET t == Head(completed)
        stamped == [result[t] EXCEPT !.finished_at = @ + 1]
    IN
    /\ enginePc = "running"
    /\ completed # <<>>
    /\ completed' = Tail(completed)
    /\ result' = [result EXCEPT ![t] = stamped]
    /\ measurements' = Append(measurements, stamped)
    /\ logged' = Append(logged, LogRecord(stamped))
    /\ UNCHANGED << elsewhere, rng, wall, answer >>
    /\ UNCHANGED << engine, enginePc, jobs, pc, locals, raised, sleeps, acquires,
                    releases, semValue, semWaiters, selfMeasurements,
                    returned, clock, starts, delays, doneOrder >>

\* One round of `for coro in asyncio.as_completed(tasks)`: `await coro`
\* gives the next finished task's measurement, which is appended and logged,
\* or raises the exception that ended the task, which leaves run().
Collect ==
    /\ enginePc = "running"
    /\ completed # <<>>
    /\ completed' = Tail(completed)
    /\ IF IsException(result[Head(completed)])
       THEN /\ enginePc' = "raised"
            /\ UNCHANGED << measurements, logged >>
       ELSE /\ measurements' = Append(measurements, result[Head(completed)])
            /\ logged' = Append(logged, LogRecord(result[Head(completed)]))
            /\ UNCHANGED enginePc
    /\ UNCHANGED << elsewhere, rng, wall, answer >>
    /\ UNCHANGED << engine, jobs, pc, locals, raised, sleeps, acquires,
                    releases, result, semValue, semWaiters, selfMeasurements,
                    returned, clock, starts, delays, doneOrder >>

\* A mutant of Return: the batch is added to what self.measurements holds.
ReturnExtending ==
    /\ enginePc = "running"
    /\ Len(measurements) = Len(jobs)
    /\ selfMeasurements' = selfMeasurements \o measurements
    /\ returned' = measurements
    /\ enginePc' = "returned"
    /\ UNCHANGED << elsewhere, rng, wall, answer >>
    /\ UNCHANGED << engine, jobs, pc, locals, raised, sleeps, acquires, releases,
                    result, semValue, semWaiters, completed, measurements, logged,
                    clock, starts, delays, doneOrder >>

\* The loop has yielded every task: self.measurements = measurements; return.
Return ==
    /\ enginePc = "running"
    /\ Len(measurements) = Len(jobs)
    /\ selfMeasurements' = measurements
    /\ returned' = measurements
    /\ enginePc' = "returned"
    /\ UNCHANGED << elsewhere, rng, wall, answer >>
    /\ UNCHANGED << engine, jobs, pc, locals, raised, sleeps, acquires, releases,
                    result, semValue, semWaiters, completed, measurements, logged,
                    clock, starts, delays, doneOrder >>

Next ==
    \/ Run
    \/ \E t \in Tasks : StartJob(t)
    \/ \E t \in Tasks : ResumeJob(t)
    \/ \E t \in Tasks : \E addrs \in Returns(jobs[t].provider) : QueryReturns(t, addrs)
    \/ \E t \in Tasks : \E exc \in Raises(jobs[t].provider, jobs[t].domain) : OnRateLimit(t, exc)
    \/ \E t \in Tasks : \E exc \in Raises(jobs[t].provider, jobs[t].domain) : OnTimeout(t, exc)
    \/ \E t \in Tasks : \E exc \in Raises(jobs[t].provider, jobs[t].domain) : OnQueryError(t, exc)
    \/ \E t \in Tasks : \E exc \in Raises(jobs[t].provider, jobs[t].domain) : OnUnexpected(t, exc)
    \/ \E t \in Tasks : BackoffElapses(t)
    \/ Collect
    \/ Return

Spec == Init /\ [][Next]_vars

\* The runs that vary the backoff settings: a simulated provider, whose
\* failures are retried, and the system resolver share one slot (whatever
\* concurrency below 2 the constructor is given).
InitBackoff ==
    /\ \E concurrency \in -1 .. 1,
          max_retries \in -1 .. MaxBackoffRetries,
          timing \in BackoffArgs :
            Constructed([providers |-> <<"sim-flaky", "system">>,
                         domains |-> <<"example.com">>, iterations |-> 1],
                        concurrency, max_retries, timing)
    /\ rng = NoSeed
    /\ wall = 0
    /\ Alone

SpecBackoff == InitBackoff /\ [][Next]_vars

\* The event loop runs every callback that is ready: a created or woken task
\* takes its step, a query in flight answers or is cut off by its deadline,
\* a backoff sleep ends after its delay, and run() resumes when a task has
\* finished. No step can be postponed for ever.
FairSpec == Spec /\ WF_vars(Next)

\* ------------------------------------------------------- two engines
\* The engines of mocked providers, which are run twice: one domain, one
\* iteration, a seeded random source, and either three providers that fail
\* in the different ways, or one that is always rate limited next to one
\* that always answers.
InitMocked ==
    /\ \/ \E concurrency \in 1 .. MaxConcurrency,
             max_retries \in 0 .. MaxRetries,
             timing \in TimingArgs :
                Constructed([providers |-> <<"mock-throttled", "mock-silent", "mock-broken">>,
                             domains |-> <<"example.com">>, iterations |-> 1],
                            concurrency, max_retries, timing)
       \/ \E concurrency \in 1 .. MaxConcurrency,
             max_retries \in 0 .. MaxBackoffRetries,
             timing \in TimingArgs :
                Constructed([providers |-> <<"mock-limited", "mock-empty">>,
                             domains |-> <<"example.com">>, iterations |-> 1],
                            concurrency, max_retries, timing)
    /\ rng \in Seeds
    /\ wall = 0
    /\ Alone

\* The first engine's run() has returned; a second engine is constructed
\* with the same arguments and a random source of the same seed, at some
\* reading of the clocks. What the first one made is kept for comparison.
ConstructTwin ==
    /\ enginePc = "returned"
    /\ twin.engines = 1
    /\ twin' = [ engines |-> 2, runs |-> 1, jobs |-> jobs, returned |-> returned ]
    /\ wall' \in TwinStarts
    /\ enginePc' = "ready"
    /\ jobs' = <<>>
    /\ pc' = <<>>
    /\ locals' = <<>>
    /\ raised' = <<>>
    /\ sleeps' = <<>>
    /\ acquires' = <<>>
    /\ releases' = <<>>
    /\ result' = <<>>
    /\ semValue' = NewSemaphore(engine.concurrency)
    /\ semWaiters' = <<>>
    /\ completed' = <<>>
    /\ measurements' = <<>>
    /\ logged' = <<>>
    /\ selfMeasurements' = <<>>
    /\ returned' = <<>>
    /\ clock' = <<>>
    /\ starts' = <<>>
    /\ delays' = <<>>
    /\ doneOrder' = <<>>
    /\ answer' = <<>>
    /\ UNCHANGED << engine, rng, runner, analyzer, modules >>

\* The steps of an engine whose providers are the mocked ones.
NextMocked ==
    \/ Run
    \/ \E t \in Tasks : StartJob(t)
    \/ \E t \in Tasks : ResumeJob(t)
    \/ \E t \in Tasks : \E addrs \in MockedReturns(jobs[t].provider, locals[t].attempts) :
            QueryReturns(t, addrs)
    \/ \E t \in Tasks : \E exc \in MockedRaises(jobs[t].provider, locals[t].attempts) :
            OnRateLimit(t, exc)
    \/ \E t \in Tasks : \E exc \in MockedRaises(jobs[t].provider, locals[t].attempts) :
            OnTimeout(t, exc)
    \/ \E t \in Tasks : \E exc \in MockedRaises(jobs[t].provider, locals[t].attempts) :
            OnQueryError(t, exc)
    \/ \E t \in Tasks : \E exc \in MockedRaises(jobs[t].provider, locals[t].attempts) :
            OnUnexpected(t, exc)
    \/ \E t \in Tasks : BackoffElapses(t)
    \/ Collect
    \/ Return
    \/ ConstructTwin

SpecMocked == InitMocked /\ [][NextMocked]_vars

\* run() has returned and its caller, who keeps the batch, calls run() on
\* the same engine once more, at some reading of the clocks: the engine's
\* fields (its semaphore and self.measurements among them) are as the first
\* run left them.
CallAgain ==
    /\ enginePc = "returned"
    /\ twin = NoTwin
    /\ twin' = [ engines |-> 1, runs |-> 2, jobs |-> jobs, returned |-> returned ]
    /\ wall' \in TwinStarts
    /\ enginePc' = "ready"
    /\ UNCHANGED << engine, jobs, pc, locals, raised, sleeps, acquires, releases,
                    result, semValue, semWaiters, completed, measurements, logged,
                    selfMeasurements, returned, clock, starts, delays, doneOrder,
                    answer, rng, runner, analyzer, modules >>

\* The engines that are run twice: four mocked providers, which between
\* them end in every way, one domain, one iteration.
InitAgain ==
    /\ \E concurrency \in 1 .. MaxConcurrency,
          max_retries \in 0 .. MaxRetries,
          timing \in TimingArgs :
            Constructed([providers |-> <<"mock-throttled", "mock-silent",
                                        "mock-broken", "mock-limited">>,
                         domains |-> <<"example.com">>, iterations |-> 1],
                        concurrency, max_retries, timing)
    /\ rng \in Seeds
    /\ wall = 0
    /\ Alone

\* The steps of an engine of mocked providers whose run() is called a
\* second time.
NextAgain ==
    \/ Run
    \/ \E t \in Tasks : StartJob(t)
    \/ \E t \in Tasks : ResumeJob(t)
    \/ \E t \in Tasks : \E addrs \in MockedReturns(jobs[t].provider, locals[t].attempts) :
            QueryReturns(t, addrs)
    \/ \E t \in Tasks : \E exc \in MockedRaises(jobs[t].provider, locals[t].attempts) :
            OnRateLimit(t, exc)
    \/ \E t \in Tasks : \E exc \in MockedRaises(jobs[t].provider, locals[t].attempts) :
            OnTimeout(t, exc)
    \/ \E t \in Tasks : \E exc \in MockedRaises(jobs[t].provider, locals[t].attempts) :
            OnQueryError(t, exc)
    \/ \E t \in Tasks : \E exc \in MockedRaises(jobs[t].provider, locals[t].attempts) :
            OnUnexpected(t, exc)
    \/ \E t \in Tasks : BackoffElapses(t)
    \/ Collect
    \/ Return
    \/ CallAgain

SpecAgain == InitAgain /\ [][NextAgain]_vars

\* The engines of two mocked providers whose failures alternate between a
\* rate limit and a failure to resolve: one domain, one iteration.
InitMixed ==
    /\ \E concurrency \in 1 .. MaxConcurrency,
          max_retries \in 0 .. MaxBackoffRetries,
          timing \in TimingArgs :
            Constructed([providers |-> <<"mock-flapping", "mock-flipping">>,
                         domains |-> <<"example.com">>, iterations |-> 1],
                        concurrency, max_retries, timing)
    /\ rng \in Seeds
    /\ wall = 0
    /\ Alone

\* The steps of an engine whose providers fail on every attempt with one of
\* the two retried kinds.
NextMixed ==
    \/ Run
    \/ \E t \in Tasks : StartJob(t)
    \/ \E t \in Tasks : ResumeJob(t)
    \/ \E t \in Tasks : \E exc \in MockedRaises(jobs[t].provider, locals[t].attempts) :
            OnRateLimit(t, exc)
    \/ \E t \in Tasks : \E exc \in MockedRaises(jobs[t].provider, locals[t].attempts) :
            OnQueryError(t, exc)
    \/ \E t \in Tasks : BackoffElapses(t)
    \/ Collect
    \/ Return

SpecMixed == InitMixed /\ [][NextMixed]_vars

\* ============================================================ benchmark.py
\* BenchmarkRunner: the thread-pool variant of the benchmark. run() submits
\* one _query_dns call per provider, domain and iteration to a
\* ThreadPoolExecutor and gathers the results as the futures complete.

\* Every variable of the BenchmarkEngine.
engineVars ==
    << engine, enginePc, jobs, pc, locals, raised, sleeps, acquires, releases,
       result, semValue, semWaiters, completed, measurements, logged,
       selfMeasurements, returned, clock, starts, delays, doneOrder, answer,
       rng, wall >>

\* No BenchmarkEngine has been made.
NoEngine ==
    /\ \E timing \in TimingArgs :
        Constructed([providers |-> <<>>, domains |-> <<>>, iterations |-> 0],
                    1, 0, timing)
    /\ rng = NoSeed
    /\ wall = 0

\* ThreadPoolExecutor(max_workers=20)
MaxWorkers == 20

\* The (providers, domains, iterations) arguments BenchmarkRunner is given.
RunnerArgs ==
    { [providers |-> <<"8.8.8.8", "1.1.1.1">>, domains |-> <<"google.com">>,
       iterations |-> 1],
      [providers |-> <<"8.8.8.8">>, domains |-> <<"google.com", "github.com">>,
       iterations |-> 1],
      [providers |-> <<"8.8.8.8">>, domains |-> <<"google.com">>, iterations |-> 3],
      [providers |-> <<"8.8.8.8">>, domains |-> <<"google.com">>, iterations |-> 0],
      [providers |-> <<>>, domains |-> <<"google.com">>, iterations |-> 2] }

\* class -> direct base class, for the exceptions of dnspython and the
\* others a query can raise. LifetimeTimeout is what Resolver.resolve raises
\* when the lifetime is used up, LabelTooLong what it raises for a bad name,
\* NoResolverConfiguration what Resolver() raises without a resolv.conf.
DnsBaseClass ==
    [ c \in { "NXDOMAIN", "NoAnswer", "Timeout", "LifetimeTimeout", "NoNameservers",
              "LabelTooLong", "NoResolverConfiguration", "DNSException",
              "OSError", "Exception" } |->
        CASE c = "LifetimeTimeout" -> "Timeout"
          [] c = "OSError"         -> "Exception"
          [] c = "DNSException"    -> "Exception"
          [] c = "Exception"       -> None
          [] OTHER                 -> "DNSException" ]

\* isinstance(exc, target) for an exception of class cls.
RECURSIVE IsDnsInstance(_, _)
IsDnsInstance(cls, target) ==
    IF cls = target THEN TRUE
    ELSE IF cls \notin DOMAIN DnsBaseClass THEN FALSE
    ELSE IsDnsInstance(DnsBaseClass[cls], target)

\* How dns.resolver.Resolver() can fail (line 66, before the try).
ResolverRaises == { Exc("NoResolverConfiguration", "cannot open /etc/resolv.conf") }

\* How resolver.resolve(domain, dns.rdatatype.A) can fail.
ResolveRaises ==
    { Exc("NXDOMAIN", "The DNS query name does not exist."),
      Exc("NoAnswer", "The DNS response does not contain an answer to the question."),
      Exc("LifetimeTimeout", "The resolution lifetime expired."),
      Exc("NoNameservers", "All nameservers failed to answer the query."),
      Exc("LabelTooLong", "A DNS label is > 63 octets long."),
      Exc("OSError", "Network is unreachable") }

\* resolver.resolve returned its answer: no exception.
NoException == Exc(None, "")

\* The time resolver.resolve takes, in ticks; two readings of time.time()
\* can be equal.
ResolveTimes == { 0, 2 }

\* A mutant of QueryDnsClause: the DNSException clause comes first.
QueryDnsClauseBaseFirst(cls) ==
    IF IsDnsInstance(cls, "DNSException") THEN "DNSException"
    ELSE IF IsDnsInstance(cls, "NXDOMAIN") THEN "NXDOMAIN"
    ELSE IF IsDnsInstance(cls, "NoAnswer") THEN "NoAnswer"
    ELSE IF IsDnsInstance(cls, "Timeout") THEN "Timeout"
    ELSE IF IsDnsInstance(cls, "NoNameservers") THEN "NoNameservers"
    ELSE IF IsDnsInstance(cls, "Exception") THEN "Error"
    ELSE "uncaught"

\* Which except clause of _query_dns catches an exception of class cls: the
\* first, in source order, whose class matches.
QueryDnsClause(cls) ==
    IF IsDnsInstance(cls, "NXDOMAIN") THEN "NXDOMAIN"
    ELSE IF IsDnsInstance(cls, "NoAnswer") THEN "NoAnswer"
    ELSE IF IsDnsInstance(cls, "Timeout") THEN "Timeout"
    ELSE IF IsDnsInstance(cls, "NoNameservers") THEN "NoNameservers"
    ELSE IF IsDnsInstance(cls, "DNSException") THEN "DNSException"
    ELSE IF IsDnsInstance(cls, "Exception") THEN "Error"
    ELSE "uncaught"

\* The error message of the clause that catches exc.
QueryDnsError(exc) ==
    CASE QueryDnsClause(exc.cls) = "NXDOMAIN" -> "NXDOMAIN: Domain does not exist"
      [] QueryDnsClause(exc.cls) = "NoAnswer" -> "NoAnswer: No A record found"
      [] QueryDnsClause(exc.cls) = "Timeout" -> "Timeout: Query exceeded time limit"
      [] QueryDnsClause(exc.cls) = "NoNameservers" ->
            "NoNameservers: Unable to reach nameserver"
      [] QueryDnsClause(exc.cls) = "DNSException" -> "DNSException: " \o exc.msg
      [] OTHER -> "Error: " \o exc.msg

\* What a call has made: nothing yet, a returned (latency_ms, success,
\* error) triple, or an exception.
NoOutcome == [ kind |-> "none", latency_ms |-> 0, success |-> FALSE, error |-> None ]

Returned(latency_ms, success, error) ==
    [ kind |-> "returned", latency_ms |-> latency_ms, success |-> success,
      error |-> error ]

Raised(exc) ==
    [ kind |-> "raised", latency_ms |-> 0, success |-> FALSE, error |-> exc.msg ]

\* _query_dns from its try statement on (lines 71-93): resolve was called at
\* start_time and answered (NoException) or raised exc at reading now.
QueryDns(exc, start_time, now) ==
    IF exc = NoException
    THEN Returned(LatencyMs(start_time, now), TRUE, None)
    ELSE Returned(LatencyMs(start_time, now), FALSE, QueryDnsError(exc))

\* The futures run() submits, in submission order: for provider, for
\* domain, for _ in range(iterations).
RECURSIVE Repeated(_, _)
Repeated(x, n) == IF n <= 0 THEN <<>> ELSE <<x>> \o Repeated(x, n - 1)

RECURSIVE SubmitDomains(_, _, _)
SubmitDomains(provider, domains, iterations) ==
    IF domains = <<>> THEN <<>>
    ELSE Repeated([provider |-> provider, domain |-> Head(domains)], iterations)
         \o SubmitDomains(provider, Tail(domains), iterations)

RECURSIVE Submissions(_, _, _)
Submissions(providers, domains, iterations) ==
    IF providers = <<>> THEN <<>>
    ELSE SubmitDomains(Head(providers), domains, iterations)
         \o Submissions(Tail(providers), domains, iterations)

\* BenchmarkRunner(providers, domains, iterations=...), and run() called:
\* the pool is there and nothing is submitted yet.
RunnerInit(args) ==
    [ pc         |-> "running",
      providers  |-> args.providers,
      domains    |-> args.domains,
      iterations |-> args.iterations,
      futures    |-> <<>>,
      yielded    |-> <<>>,
      results    |-> <<>>,
      returned   |-> <<>> ]

InitRunner ==
    /\ NoEngine
    /\ twin = NoTwin
    /\ analyzer = NoAnalyzer
    /\ Unloaded
    /\ \E args \in RunnerArgs : runner = RunnerInit(args)

\* All that run() will submit.
ToSubmit == Submissions(runner.providers, runner.domains, runner.iterations)

Futures == 1 .. Len(runner.futures)

\* future = executor.submit(self._query_dns, provider, domain);
\* future_to_meta[future] = (provider, domain)
Submit ==
    LET k == Len(runner.futures) + 1 IN
    /\ runner.pc = "running"
    /\ k <= Len(ToSubmit)
    /\ runner' = [runner EXCEPT
                    !.futures = Append(@, [ provider   |-> ToSubmit[k].provider,
                                            domain     |-> ToSubmit[k].domain,
                                            state      |-> "pending",
                                            start_time |-> 0,
                                            resolved   |-> NoException,
                                            outcome    |-> NoOutcome ])]
    /\ UNCHANGED << engineVars, twin, analyzer, modules >>

\* A free worker thread takes future f from the queue and calls _query_dns:
\* Resolver() is made, start_time read and resolve called; or Resolver()
\* raises, which ends the call and the future.
WorkerStarts(f) ==
    /\ runner.futures[f].state = "pending"
    /\ Cardinality({ g \in Futures : runner.futures[g].state = "running" }) < MaxWorkers
    /\ \/ runner' = [runner EXCEPT !.futures[f].state = "running",
                                   !.futures[f].start_time = f]
       \/ \E exc \in ResolverRaises :
            runner' = [runner EXCEPT !.futures[f].state = "finished",
                                     !.futures[f].outcome = Raised(exc)]
    /\ UNCHANGED << engineVars, twin, analyzer, modules >>

\* resolve answers or raises (resolved keeps which), and _query_dns returns
\* its triple.
WorkerFinishes(f, exc) ==
    /\ runner.futures[f].state = "running"
    /\ \E elapsed \in ResolveTimes :
        runner' = [runner EXCEPT
                    !.futures[f].state = "finished",
                    !.futures[f].resolved = exc,
                    !.futures[f].outcome =
                        QueryDns(exc, runner.futures[f].start_time,
                                 runner.futures[f].start_time + elapsed)]
    /\ UNCHANGED << engineVars, twin, analyzer, modules >>

\* BenchmarkResult(...) of lines 121-127 and 130-136.
BenchmarkResult(provider, domain, latency_ms, success, error) ==
    [ provider |-> provider, domain |-> domain, latency_ms |-> latency_ms,
      success |-> success, error |-> error ]

\* A mutant of ResultOf: a future that raised leaves no result.
ResultOfDroppingRaised(future) ==
    IF future.outcome.kind = "returned"
    THEN << BenchmarkResult(future.provider, future.domain, future.outcome.latency_ms,
                            future.outcome.success, future.outcome.error) >>
    ELSE <<>>

\* The body of the as_completed loop for a finished future: the results it
\* appends.
ResultOf(future) ==
    IF future.outcome.kind = "returned"
    THEN << BenchmarkResult(future.provider, future.domain, future.outcome.latency_ms,
                            future.outcome.success, future.outcome.error) >>
    ELSE << BenchmarkResult(future.provider, future.domain, 0, FALSE,
                            "Unexpected error: " \o future.outcome.error) >>

\* One round of `for future in as_completed(future_to_meta)`, which starts
\* when everything is submitted: some finished future that was not yielded
\* yet is yielded and its result appended.
AsCompleted(f) ==
    /\ runner.pc = "running"
    /\ Len(runner.futures) = Len(ToSubmit)
    /\ runner.futures[f].state = "finished"
    /\ \A i \in 1 .. Len(runner.yielded) : runner.yielded[i] # f
    /\ runner' = [runner EXCEPT !.yielded = Append(@, f),
                                !.results = @ \o ResultOf(runner.futures[f])]
    /\ UNCHANGED << engineVars, twin, analyzer, modules >>

\* asdict(result): the dictionary of the five fields.
AsDict(r) ==
    [ provider |-> r.provider, domain |-> r.domain, latency_ms |-> r.latency_ms,
      success |-> r.success, error |-> r.error ]

\* The loop has yielded every future: return [asdict(result) for ...].
RunnerReturn ==
    /\ runner.pc = "running"
    /\ Len(runner.futures) = Len(ToSubmit)
    /\ Len(runner.yielded) = Len(runner.futures)
    /\ runner' = [runner EXCEPT
                    !.pc = "returned",
                    !.returned = [ i \in 1 .. Len(runner.results) |->
                                        AsDict(runner.results[i]) ]]
    /\ UNCHANGED << engineVars, twin, analyzer, modules >>

NextRunner ==
    \/ Submit
    \/ \E f \in Futures : WorkerStarts(f)
    \/ \E f \in Futures : \E exc \in ResolveRaises \cup { NoException } : WorkerFinishes(f, exc)
    \/ \E f \in Futures : AsCompleted(f)
    \/ RunnerReturn

SpecRunner == InitRunner /\ [][NextRunner]_vars

\* ============================================================== results.py
\* ResultsAnalyzer: per-provider metrics of a list of result dictionaries.

\* The longest list of results given to ResultsAnalyzer.
MaxResults == 3

\* The result dictionaries of BenchmarkRunner.run: latency_ms in whole
\* milliseconds, error None exactly for a success.
ResultDicts ==
    { AsDict(BenchmarkResult(provider, "google.com", latency_ms, success,
                             IF success THEN None
                             ELSE "Timeout: Query exceeded time limit")) :
        provider \in { "8.8.8.8", "1.1.1.1" },
        latency_ms \in { 0, 30, 60 },
        success \in BOOLEAN }

\* All lists of n result dictionaries.
RECURSIVE ResultLists(_)
ResultLists(n) ==
    IF n = 0 THEN { <<>> }
    ELSE { Append(rs, r) : rs \in ResultLists(n - 1), r \in ResultDicts }

\* A float that is the quotient of two integers, kept exact: num / den,
\* den > 0.
Quotient(num, den) == [ num |-> num, den |-> den ]

\* a < b for two quotients.
Less(a, b) == a.num * b.den < b.num * a.den

RECURSIVE Sum(_)
Sum(xs) == IF xs = <<>> THEN 0 ELSE Head(xs) + Sum(Tail(xs))

\* statistics.mean(latencies)
Mean(xs) == Quotient(Sum(xs), Len(xs))

\* sorted(data), as statistics.median calls it.
RECURSIVE InsertNumber(_, _)
InsertNumber(xs, x) ==
    IF xs = <<>> THEN << x >>
    ELSE IF x < Head(xs) THEN << x >> \o xs
    ELSE << Head(xs) >> \o InsertNumber(Tail(xs), x)

RECURSIVE SortedNumbers(_)
SortedNumbers(xs) ==
    IF xs = <<>> THEN <<>>
    ELSE InsertNumber(SortedNumbers(SubSeq(xs, 1, Len(xs) - 1)), xs[Len(xs)])

\* statistics.median(latencies): the middle value, or the mean of the two
\* middle values.
Median(xs) ==
    LET data == SortedNumbers(xs)
        n    == Len(data)
    IN IF n % 2 = 1 THEN Quotient(data[(n + 1) \div 2], 1)
       ELSE Quotient(data[n \div 2] + data[n \div 2 + 1], 2)

\* The keys of provider_data in insertion order: the providers in the order
\* of their first result.
RECURSIVE ProviderKeys(_, _)
ProviderKeys(results, seen) ==
    IF results = <<>> THEN <<>>
    ELSE IF Head(results).provider \in seen THEN ProviderKeys(Tail(results), seen)
    ELSE << Head(results).provider >>
         \o ProviderKeys(Tail(results), seen \cup { Head(results).provider })

\* A mutant of ProviderData: only the successes are counted as samples.
ProviderDataOfSuccesses(results, provider) ==
    LET own == SelectSeq(results, LAMBDA r : r.provider = provider) IN
    [ latencies     |-> [ i \in 1 .. Len(own) |-> own[i].latency_ms ],
      success_count |-> Len(SelectSeq(own, LAMBDA r : r.success)),
      total_count   |-> Len(SelectSeq(own, LAMBDA r : r.success)) ]

\* provider_data[provider] after the first loop: the latency of every
\* result of the provider, failed or not, and the two counters.
ProviderData(results, provider) ==
    LET own == SelectSeq(results, LAMBDA r : r.provider = provider) IN
    [ latencies     |-> [ i \in 1 .. Len(own) |-> own[i].latency_ms ],
      success_count |-> Len(SelectSeq(own, LAMBDA r : r.success)),
      total_count   |-> Len(own) ]

\* ProviderMetrics(...) of one provider (lines 64-78).
ProviderMetrics(provider, data) ==
    [ provider       |-> provider,
      avg_latency    |-> Mean(data.latencies),
      median_latency |-> Median(data.latencies),
      success_rate   |-> Quotient(data.success_count * 100, data.total_count),
      sample_count   |-> data.total_count ]

\* list.sort(key=lambda m: m.avg_latency): stable, ascending.
RECURSIVE InsertMetrics(_, _)
InsertMetrics(ms, m) ==
    IF ms = <<>> THEN << m >>
    ELSE IF Less(m.avg_latency, Head(ms).avg_latency) THEN << m >> \o ms
    ELSE << Head(ms) >> \o InsertMetrics(Tail(ms), m)

RECURSIVE SortByAvgLatency(_)
SortByAvgLatency(ms) ==
    IF ms = <<>> THEN <<>>
    ELSE InsertMetrics(SortByAvgLatency(SubSeq(ms, 1, Len(ms) - 1)), ms[Len(ms)])

\* analyze() on self.results.
AnalyzeResults(results) ==
    LET keys == ProviderKeys(results, {}) IN
    SortByAvgLatency([ i \in 1 .. Len(keys) |->
                        ProviderMetrics(keys[i], ProviderData(results, keys[i])) ])

\* ResultsAnalyzer(results)
InitAnalyzer ==
    /\ NoEngine
    /\ twin = NoTwin
    /\ runner = NoRunner
    /\ Unloaded
    /\ \E n \in 0 .. MaxResults : \E results \in ResultLists(n) :
        analyzer = [ pc |-> "constructed", results |-> results, metrics |-> <<>> ]

\* metrics = analyzer.analyze()
Analyze ==
    /\ analyzer.pc = "constructed"
    /\ analyzer' = [analyzer EXCEPT !.pc = "analyzed",
                                    !.metrics = AnalyzeResults(analyzer.results)]
    /\ UNCHANGED << engineVars, twin, runner, modules >>

NextAnalyzer == Analyze

SpecAnalyzer == InitAnalyzer /\ [][NextAnalyzer]_vars

\* ============================================================== core/di.py
\* ServiceContainer: services registered by name, as an instance or as a
\* factory, with or without caching of what the factory makes.

\* The number of register, get, has and clear calls made on a container.
MaxCalls == 5

ServiceNames == { "runner", "analyzer" }

\* What register is given as service: a callable making a new object at
\* every call ("make_a", "make_b"), a callable returning None
\* ("make_none"), or an object that is not callable ("config").
Services ==
    { [callable |-> TRUE,  id |-> "make_a"],
      [callable |-> TRUE,  id |-> "make_b"],
      [callable |-> TRUE,  id |-> "make_none"],
      [callable |-> FALSE, id |-> "config"] }

\* name not in self._services / not in self._singletons
Unregistered == [ callable |-> FALSE, id |-> "unregistered" ]

\* An object: what made it, and the how-manieth object of the container's
\* lifetime it is. None is the one object nothing made.
Object(maker, serial) == [ maker |-> maker, serial |-> serial ]

NoObject == Object(None, 0)

NotCached == Object("absent", 0)

\* service_factory() if callable(service_factory) else service_factory,
\* when `made` objects were made before.
Instantiate(service, made) ==
    IF ~service.callable THEN Object(service.id, 0)
    ELSE IF service.id = "make_none" THEN NoObject
    ELSE Object(service.id, made + 1)

\* ServiceContainer(config); the ghosts singleton, invoked and got describe
\* each name's latest registration: its flag, how often get called its
\* factory and what get returned.
InitContainer ==
    /\ NoEngine
    /\ twin = NoTwin
    /\ runner = NoRunner
    /\ analyzer = NoAnalyzer
    /\ detection = NoDetection
    /\ local = NoLocal
    /\ cli = NoCli
    /\ container = [ pc         |-> "constructed",
                     services   |-> [ n \in ServiceNames |-> Unregistered ],
                     singletons |-> [ n \in ServiceNames |-> NotCached ],
                     singleton  |-> [ n \in ServiceNames |-> FALSE ],
                     invoked    |-> [ n \in ServiceNames |-> 0 ],
                     got        |-> [ n \in ServiceNames |-> <<>> ],
                     made       |-> 0,
                     calls      |-> 0,
                     raised     |-> None ]

\* register(name, service, singleton)
Register(name, service, singleton) ==
    /\ container.calls < MaxCalls
    /\ container' = [container EXCEPT
                        !.services[name] = service,
                        !.singletons[name] = IF singleton THEN NoObject ELSE @,
                        !.singleton[name] = singleton,
                        !.invoked[name] = 0,
                        !.got[name] = <<>>,
                        !.calls = @ + 1,
                        !.raised = None]
    /\ UNCHANGED << engineVars, twin, runner, analyzer, detection, local, cli >>

\* get(name) of a name that is not registered: KeyError.
GetRaises(name) ==
    /\ container.calls < MaxCalls
    /\ container.services[name] = Unregistered
    /\ container' = [container EXCEPT !.calls = @ + 1, !.raised = "KeyError"]
    /\ UNCHANGED << engineVars, twin, runner, analyzer, detection, local, cli >>

\* get(name) of a name in self._singletons: the cached object, made now if
\* the cache holds None.
GetSingleton(name) ==
    /\ container.calls < MaxCalls
    /\ container.services[name] # Unregistered
    /\ container.singletons[name] # NotCached
    /\ LET fresh  == container.singletons[name] = NoObject
           object == IF fresh
                     THEN Instantiate(container.services[name], container.made)
                     ELSE container.singletons[name]
       IN container' = [container EXCEPT
                            !.singletons[name] = object,
                            !.invoked[name] =
                                IF fresh /\ container.services[name].callable
                                THEN @ + 1 ELSE @,
                            !.made = IF object.serial > @ THEN object.serial ELSE @,
                            !.got[name] = Append(@, object),
                            !.calls = @ + 1,
                            !.raised = None]
    /\ UNCHANGED << engineVars, twin, runner, analyzer, detection, local, cli >>

\* get(name) of a name that is not in self._singletons: the factory is
\* called, or the registered object returned.
GetTransient(name) ==
    /\ container.calls < MaxCalls
    /\ container.services[name] # Unregistered
    /\ container.singletons[name] = NotCached
    /\ LET object == Instantiate(container.services[name], container.made)
       IN container' = [container EXCEPT
                            !.invoked[name] =
                                IF container.services[name].callable THEN @ + 1 ELSE @,
                            !.made = IF object.serial > @ THEN object.serial ELSE @,
                            !.got[name] = Append(@, object),
                            !.calls = @ + 1,
                            !.raised = None]
    /\ UNCHANGED << engineVars, twin, runner, analyzer, detection, local, cli >>

\* clear()
Clear ==
    /\ container.calls < MaxCalls
    /\ container' = [container EXCEPT
                        !.services = [ n \in ServiceNames |-> Unregistered ],
                        !.singletons = [ n \in ServiceNames |-> NotCached ],
                        !.singleton = [ n \in ServiceNames |-> FALSE ],
                        !.invoked = [ n \in ServiceNames |-> 0 ],
                        !.got = [ n \in ServiceNames |-> <<>> ],
                        !.calls = @ + 1,
                        !.raised = None]
    /\ UNCHANGED << engineVars, twin, runner, analyzer, detection, local, cli >>

NextContainer ==
    \/ \E name \in ServiceNames : \E service \in Services : \E singleton \in BOOLEAN :
         Register(name, service, singleton)
    \/ \E name \in ServiceNames : GetRaises(name)
    \/ \E name \in ServiceNames : GetSingleton(name)
    \/ \E name \in ServiceNames : GetTransient(name)
    \/ Clear

SpecContainer == InitContainer /\ [][NextContainer]_vars

\* ===================================================== local_dns/detector.py
\* detect_resolvers reads the platform's resolver configuration, hands every
\* candidate text to _build_resolver and removes repeated addresses;
\* parse_override_addresses does the same for manual entries.

\* A missing number in the metadata of a resolver.
NoIndex == -1

\* The candidate texts the parsers meet: two IPv4 addresses, an IPv6 address
\* in upper case, the same address in brackets, a host name, and brackets
\* with nothing in them.
Candidates ==
    { "8.8.8.8", "1.1.1.1", "2001:DB8::1", "[2001:db8::1]", "invalid-ip", "[]" }

\* candidate.strip().strip("[]")
Cleaned(candidate) ==
    CASE candidate = "[2001:db8::1]" -> "2001:db8::1"
      [] candidate = "[]"            -> ""
      [] OTHER                       -> candidate

\* ipaddress.ip_address(cleaned): the address, whose str() is in lower case
\* and compressed, or ValueError (valid = FALSE).
IpAddress(cleaned) ==
    CASE cleaned \in { "8.8.8.8", "1.1.1.1" } -> [ valid |-> TRUE, text |-> cleaned, version |-> 4 ]
      [] cleaned \in { "2001:DB8::1", "2001:db8::1" } ->
            [ valid |-> TRUE, text |-> "2001:db8::1", version |-> 6 ]
      [] OTHER -> [ valid |-> FALSE, text |-> cleaned, version |-> 0 ]

\* The metadata dictionary of a resolver; the keys a parser does not set
\* are None or NoIndex.
Metadata(kind, line, key, position, resolver, interface, adapter) ==
    [ kind |-> kind, line |-> line, key |-> key, position |-> position,
      resolver |-> resolver, interface |-> interface, adapter |-> adapter ]

\* ResolverEndpoint(address, version, source, metadata)
ResolverEndpoint(address, version, source, metadata) ==
    [ address |-> address, version |-> version, source |-> source,
      metadata |-> metadata ]

\* f"Skipping invalid IP '{cleaned}' from {source}"
SkippingMessage(cleaned, source) ==
    "Skipping invalid IP '" \o cleaned \o "' from " \o source

\* What a parser has gathered: resolvers and errors, in order; candidates
\* keeps every text _build_resolver was called with, and its source.
Gathered(resolvers, errors) ==
    [ resolvers |-> resolvers, errors |-> errors, candidates |-> <<>> ]

Candidate(text, source) == [ text |-> text, source |-> source ]

\* A mutant of BuildResolver: once an invalid candidate was reported, the
\* candidates that follow are dropped.
BuildResolverStopping(g, candidate, source, metadata, reporting) ==
    LET cleaned == Cleaned(candidate)
        ip      == IpAddress(cleaned)
        called  == [g EXCEPT !.candidates = Append(@, Candidate(candidate, source))]
    IN IF cleaned = "" \/ g.errors # <<>> THEN called
       ELSE IF ~ip.valid
       THEN IF reporting
            THEN [called EXCEPT !.errors = Append(@, SkippingMessage(cleaned, source))]
            ELSE called
       ELSE [called EXCEPT !.resolvers =
                Append(@, ResolverEndpoint(ip.text, ip.version, source, metadata))]

\* _build_resolver(candidate, source=..., metadata=..., errors=...) and the
\* `if resolver: resolvers.append(resolver)` of its caller, on what was
\* gathered so far; reporting is `errors is not None`.
BuildResolver(g, candidate, source, metadata, reporting) ==
    LET cleaned == Cleaned(candidate)
        ip      == IpAddress(cleaned)
        called  == [g EXCEPT !.candidates = Append(@, Candidate(candidate, source))]
    IN IF cleaned = "" THEN called
       ELSE IF ~ip.valid
       THEN IF reporting
            THEN [called EXCEPT !.errors = Append(@, SkippingMessage(cleaned, source))]
            ELSE called
       ELSE [called EXCEPT !.resolvers =
                Append(@, ResolverEndpoint(ip.text, ip.version, source, metadata))]

\* _split_candidates(value): the pieces between commas, semicolons and
\* blanks that are not empty.
SplitCandidates(pieces) == SelectSeq(pieces, LAMBDA piece : piece # "")

\* A mutant of Deduplicate: only a resolver that repeats the one right
\* before it is removed.
RECURSIVE DeduplicateAdjacent(_)
DeduplicateAdjacent(resolvers) ==
    IF Len(resolvers) <= 1 THEN resolvers
    ELSE IF resolvers[1].address = resolvers[2].address
    THEN DeduplicateAdjacent(<< resolvers[1] >> \o Tail(Tail(resolvers)))
    ELSE << resolvers[1] >> \o DeduplicateAdjacent(Tail(resolvers))

\* _deduplicate(resolvers): ordered.setdefault(resolver.address, resolver)
\* for each, then list(ordered.values()).
RECURSIVE Deduplicate(_)
Deduplicate(resolvers) ==
    IF resolvers = <<>> THEN <<>>
    ELSE << Head(resolvers) >>
         \o Deduplicate(SelectSeq(Tail(resolvers),
                                  LAMBDA r : r.address # Head(resolvers).address))

\* A line of a configuration text: the text that decides what the parser
\* does with it (key), the pieces of text that follow the key, and the
\* number of blanks the line starts with.
Line(key, pieces, indent) == [ key |-> key, pieces |-> pieces, indent |-> indent ]

\* build(g, candidate) for each candidate in turn.
RECURSIVE BuildAll(_, _, _, _, _)
BuildAll(g, candidates, source, metadata, reporting) ==
    IF candidates = <<>> THEN g
    ELSE BuildAll(BuildResolver(g, Head(candidates), source, metadata, reporting),
                  Tail(candidates), source, metadata, reporting)

\* _parse_resolv_conf_text(text, source=source, errors=errors) from line idx
\* on: of a line that starts with "nameserver" the first token after the
\* keyword is the candidate.
RECURSIVE ParseResolvConfText(_, _, _, _)
ParseResolvConfText(lines, idx, source, g) ==
    IF idx > Len(lines) THEN g
    ELSE LET line == lines[idx] IN
         IF line.key = "nameserver" /\ line.pieces # <<>>
         THEN ParseResolvConfText(lines, idx + 1, source,
                BuildResolver(g, line.pieces[1], source,
                              Metadata("resolv.conf", idx, None, NoIndex, None, None,
                                       None),
                              TRUE))
         ELSE ParseResolvConfText(lines, idx + 1, source, g)

\* _parse_network_manager_file(text, source=source, errors=errors) from line
\* idx on: every candidate of a key=value line whose key starts with "dns".
RECURSIVE ParseNetworkManagerFile(_, _, _, _)
ParseNetworkManagerFile(lines, idx, source, g) ==
    IF idx > Len(lines) THEN g
    ELSE LET line == lines[idx] IN
         IF line.key \in { "dns", "dns-search" }
         THEN ParseNetworkManagerFile(lines, idx + 1, source,
                BuildAll(g, SplitCandidates(line.pieces), source,
                         Metadata("network-manager", idx, line.key, NoIndex, None, None,
                                  None),
                         TRUE))
         ELSE ParseNetworkManagerFile(lines, idx + 1, source, g)

\* _parse_scutil_output(output, errors) from line idx on, with
\* current_resolver and current_interface as the lines before left them.
RECURSIVE ParseScutilOutput(_, _, _, _, _)
ParseScutilOutput(lines, idx, current_resolver, current_interface, g) ==
    IF idx > Len(lines) THEN g
    ELSE LET line == lines[idx] IN
         CASE line.key = "resolver #" ->
                ParseScutilOutput(lines, idx + 1, line.pieces[1], None, g)
           [] line.key = "if_index" ->
                ParseScutilOutput(lines, idx + 1, current_resolver, line.pieces[1], g)
           [] line.key = "nameserver[0]" ->
                ParseScutilOutput(lines, idx + 1, current_resolver, current_interface,
                    BuildResolver(g, line.pieces[1], "scutil --dns",
                                  Metadata("scutil", NoIndex, None, NoIndex,
                                           current_resolver, current_interface, None),
                                  TRUE))
           [] OTHER ->
                ParseScutilOutput(lines, idx + 1, current_resolver, current_interface, g)

\* _parse_ipconfig_output(output, errors) from line idx on; dns_indent is
\* NoIndex while collecting_dns is false.
RECURSIVE ParseIpconfigOutput(_, _, _, _, _)
ParseIpconfigOutput(lines, idx, current_adapter, dns_indent, g) ==
    IF idx > Len(lines) THEN g
    ELSE LET line     == lines[idx]
             metadata == Metadata("ipconfig", NoIndex, None, NoIndex, None, None,
                                  current_adapter)
         IN
         CASE line.key = "" /\ line.pieces = <<>> ->
                ParseIpconfigOutput(lines, idx + 1, current_adapter, NoIndex, g)
           [] dns_indent # NoIndex /\ line.indent > dns_indent ->
                ParseIpconfigOutput(lines, idx + 1, current_adapter, dns_indent,
                    BuildResolver(g, IF line.key = "" THEN line.pieces[1] ELSE line.key,
                                  "ipconfig /all", metadata, TRUE))
           [] line.key = "adapter" ->
                ParseIpconfigOutput(lines, idx + 1, line.pieces[1], NoIndex, g)
           [] line.key = "dns servers" ->
                ParseIpconfigOutput(lines, idx + 1, current_adapter, line.indent,
                    BuildAll(g, SplitCandidates(line.pieces), "ipconfig /all",
                             metadata, TRUE))
           [] OTHER ->
                ParseIpconfigOutput(lines, idx + 1, current_adapter, NoIndex, g)

\* The longest configuration text, in lines.
MaxLines == 2

\* All texts of at most n lines out of alphabet.
RECURSIVE Texts(_, _)
Texts(alphabet, n) ==
    IF n = 0 THEN { <<>> }
    ELSE Texts(alphabet, n - 1)
         \cup { Append(text, line) : text \in Texts(alphabet, n - 1), line \in alphabet }

\* Lines of /etc/resolv.conf: a comment, nameserver lines with one
\* candidate, with none and with two, and another keyword.
ResolvConfLines ==
    { Line("#", <<>>, 0), Line("nameserver", <<>>, 0),
      Line("nameserver", << "1.1.1.1", "invalid-ip" >>, 0),
      Line("search", << "invalid-ip" >>, 0) }
    \cup { Line("nameserver", << c >>, 0) : c \in Candidates }

\* Lines of a NetworkManager profile: a section header, keys that start
\* with "dns" and one that does not.
NetworkManagerLines ==
    { Line("[ipv4]", <<>>, 0),
      Line("method", << "8.8.8.8" >>, 0),
      Line("dns", << "1.1.1.1", "", "8.8.8.8" >>, 0),
      Line("dns", << "invalid-ip", "2001:DB8::1" >>, 0),
      Line("dns-search", << "invalid-ip" >>, 0) }

\* Lines of the output of scutil --dns.
ScutilLines ==
    { Line("", <<>>, 0), Line("resolver #", << "1" >>, 0), Line("resolver #", << "2" >>, 0),
      Line("if_index", << "4 (en0)" >>, 2), Line("nameserver[0]", << "" >>, 2) }
    \cup { Line("nameserver[0]", << c >>, 2) : c \in Candidates \ { "[]" } }

\* Lines of the output of ipconfig /all: an adapter header, "DNS Servers"
\* lines, lines that hold one text only and are indented further, another
\* setting, an empty line.
IpconfigLines ==
    { Line("", <<>>, 0), Line("adapter", << "Ethernet adapter Ethernet" >>, 0),
      Line("dns servers", <<>>, 3), Line("dns servers", << "8.8.8.8" >>, 3),
      Line("dns servers", << "invalid-ip" >>, 3),
      Line("", << "1.1.1.1" >>, 8), Line("", << "8.8.8.8" >>, 8),
      Line("", << "invalid-ip" >>, 8), Line("dhcp enabled", << "Yes" >>, 3) }

\* What reading a file or running a command gives: its lines, or the class
\* of the exception raised.
Gives(lines) == [ raises |-> None, lines |-> lines ]

Fails(cls) == [ raises |-> cls, lines |-> <<>> ]

\* The state of the NetworkManager directory: whether it exists, what
\* rglob does, and the profile in it.
NetworkManagerDirs ==
    { [exists |-> FALSE, rglob |-> None, profile |-> Fails("FileNotFoundError")],
      [exists |-> TRUE, rglob |-> "OSError", profile |-> Fails("FileNotFoundError")],
      [exists |-> TRUE, rglob |-> None, profile |-> Fails("PermissionError")],
      [exists |-> TRUE, rglob |-> None, profile |-> Fails("UnicodeDecodeError")] }
    \cup { [exists |-> TRUE, rglob |-> None, profile |-> Gives(<< line >>)] :
             line \in NetworkManagerLines }

\* DetectorConfig and the system it describes: the platform, what reading
\* resolv.conf gives, the NetworkManager directory, what the command runner
\* gives.
DetectorConfig(os_name, resolv_conf, network_manager, command) ==
    [ os_name |-> os_name, resolv_conf |-> resolv_conf,
      network_manager |-> network_manager, command |-> command ]

NoDirectory == [exists |-> FALSE, rglob |-> None, profile |-> Fails("FileNotFoundError")]

DetectorConfigs ==
    { DetectorConfig("linux", resolv_conf, network_manager, Fails("FileNotFoundError")) :
        resolv_conf \in { Gives(text) : text \in Texts(ResolvConfLines, MaxLines) }
                        \cup { Fails("FileNotFoundError"), Fails("PermissionError"),
                               Fails("OSError") },
        network_manager \in NetworkManagerDirs }
    \cup { DetectorConfig("darwin", Fails("FileNotFoundError"), NoDirectory, command) :
        command \in { Gives(text) : text \in Texts(ScutilLines, MaxLines + 1) }
                    \cup { Fails("FileNotFoundError"), Fails("SubprocessError"),
                           Fails("OSError") } }
    \cup { DetectorConfig("windows", Fails("FileNotFoundError"), NoDirectory, command) :
        command \in { Gives(text) : text \in Texts(IpconfigLines, MaxLines + 1) }
                    \cup { Fails("FileNotFoundError"), Fails("SubprocessError"),
                           Fails("OSError") } }

\* What _safe_read_text adds to errors for a file read that failed.
SafeReadErrors(file, path) ==
    CASE file.raises = "PermissionError" -> << "Permission denied reading " \o path >>
      [] file.raises = "OSError"         -> << "Failed to read " \o path >>
      [] OTHER                           -> <<>>

\* An exception left the parser: what was gathered is lost with it.
Escaped(g, cls) ==
    [ resolvers |-> g.resolvers, errors |-> g.errors, candidates |-> g.candidates,
      raises |-> cls ]

Kept(g) == Escaped(g, None)

\* _collect_network_manager_profiles(directory, errors)
CollectNetworkManagerProfiles(dir, g) ==
    IF dir.rglob # None
    THEN Kept([g EXCEPT !.errors = Append(@, "Failed to read NetworkManager profiles")])
    ELSE IF dir.profile.raises = "UnicodeDecodeError"
    THEN Escaped(g, "UnicodeDecodeError")
    ELSE LET read == [g EXCEPT
                        !.errors = @ \o SafeReadErrors(dir.profile, "home.nmconnection")]
         IN Kept(ParseNetworkManagerFile(dir.profile.lines, 1, "home.nmconnection", read))

\* _detect_from_unix(config, errors)
DetectFromUnix(config) ==
    LET read == Gathered(<<>>, SafeReadErrors(config.resolv_conf, "/etc/resolv.conf"))
        conf == ParseResolvConfText(config.resolv_conf.lines, 1, "/etc/resolv.conf", read)
    IN IF config.network_manager.exists
       THEN CollectNetworkManagerProfiles(config.network_manager, conf)
       ELSE Kept(conf)

\* _detect_from_scutil and _detect_from_ipconfig: the runner's exceptions
\* that are caught, the one that is not, and the parse of its output.
DetectFromCommand(config, name) ==
    CASE config.command.raises = "FileNotFoundError" ->
            Kept(Gathered(<<>>, << name \o " not available" >>))
      [] config.command.raises = "SubprocessError" ->
            Kept(Gathered(<<>>, << name \o " invocation failed" >>))
      [] config.command.raises = "OSError" ->
            Escaped(Gathered(<<>>, <<>>), "OSError")
      [] OTHER ->
            Kept(IF name = "scutil"
                 THEN ParseScutilOutput(config.command.lines, 1, "unknown", None,
                                        Gathered(<<>>, <<>>))
                 ELSE ParseIpconfigOutput(config.command.lines, 1, None, NoIndex,
                                          Gathered(<<>>, <<>>)))

\* The try statement of detect_resolvers: what the platform's detector
\* gathered, or nothing and one more error if an exception left it.
Detected(config) ==
    LET g == CASE config.os_name = "windows" -> DetectFromCommand(config, "ipconfig")
               [] config.os_name = "darwin"  -> DetectFromCommand(config, "scutil")
               [] OTHER                      -> DetectFromUnix(config)
    IN IF g.raises = None
       THEN [ resolvers |-> g.resolvers, errors |-> g.errors,
              candidates |-> g.candidates ]
       ELSE [ resolvers |-> <<>>,
              errors |-> Append(g.errors, "Unexpected detection failure: " \o g.raises),
              candidates |-> g.candidates ]

\* DetectionReport(resolvers=..., errors=...)
DetectionReport(resolvers, errors) == [ resolvers |-> resolvers, errors |-> errors ]

\* detect_resolvers(config)
DetectResolvers(config) ==
    DetectionReport(Deduplicate(Detected(config).resolvers), Detected(config).errors)

\* The manual entries given to parse_override_addresses: each a text of
\* pieces between separators.
OverrideEntries ==
    { << "1.1.1.1", "", "8.8.8.8" >>, << "8.8.8.8" >>, << "invalid-ip" >>,
      << "[2001:db8::1]", "2001:DB8::1" >>, << "[]" >> }

\* The loop of parse_override_addresses from entry `position` (counted from
\* 0) on.
RECURSIVE ParsedOverrides(_, _, _)
ParsedOverrides(entries, position, g) ==
    IF position >= Len(entries) THEN g
    ELSE ParsedOverrides(entries, position + 1,
            BuildAll(g, SplitCandidates(entries[position + 1]), "manual",
                     Metadata("manual", NoIndex, None, position, None, None, None),
                     FALSE))

\* parse_override_addresses(entries)
ParseOverrideAddresses(entries) ==
    Deduplicate(ParsedOverrides(entries, 0, Gathered(<<>>, <<>>)).resolvers)

\* detection.found is the list before _deduplicate, detection.candidates the
\* texts _build_resolver was called with, detection.report what was
\* returned (for parse_override_addresses: its list, and no errors).
Undetected(call, config, entries) ==
    [ pc |-> "called", call |-> call, config |-> config, entries |-> entries,
      found |-> <<>>, candidates |-> <<>>, report |-> DetectionReport(<<>>, <<>>) ]

InitDetector ==
    /\ NoEngine
    /\ twin = NoTwin
    /\ runner = NoRunner
    /\ analyzer = NoAnalyzer
    /\ container = NoContainer
    /\ local = NoLocal
    /\ cli = NoCli
    /\ \/ \E config \in DetectorConfigs :
            detection = Undetected("detect_resolvers", config, <<>>)
       \/ \E entries \in Texts(OverrideEntries, MaxLines + 1) :
            detection = Undetected("parse_override_addresses",
                                   DetectorConfig("linux", Fails("FileNotFoundError"),
                                                  NoDirectory, Fails("FileNotFoundError")),
                                   entries)

\* report = detect_resolvers(config)
Detect ==
    /\ detection.pc = "called"
    /\ detection.call = "detect_resolvers"
    /\ detection' = [detection EXCEPT
                        !.pc = "returned",
                        !.found = Detected(detection.config).resolvers,
                        !.candidates = Detected(detection.config).candidates,
                        !.report = DetectResolvers(detection.config)]
    /\ UNCHANGED << engineVars, twin, runner, analyzer, container, local, cli >>

\* overrides = parse_override_addresses(entries)
ParseOverride ==
    /\ detection.pc = "called"
    /\ detection.call = "parse_override_addresses"
    /\ detection' = [detection EXCEPT
                        !.pc = "returned",
                        !.found = ParsedOverrides(detection.entries, 0,
                                                  Gathered(<<>>, <<>>)).resolvers,
                        !.candidates = ParsedOverrides(detection.entries, 0,
                                                       Gathered(<<>>, <<>>)).candidates,
                        !.report = DetectionReport(
                                      ParseOverrideAddresses(detection.entries), <<>>)]
    /\ UNCHANGED << engineVars, twin, runner, analyzer, container, local, cli >>

NextDetector == Detect \/ ParseOverride

SpecDetector == InitDetector /\ [][NextDetector]_vars

\* ============================================================== resolver.py
\* get_local_resolvers: the resolvers of the current system as address
\* texts, or the loopback address.

\* _is_valid_ip(ip): IPv4Address(ip) or IPv6Address(ip) accepts the text as
\* it is written; nothing is stripped from it.
IsValidIp(ip) == IpAddress(ip).valid

\* if _is_valid_ip(ip): resolvers.append(ip), for each text in turn.
ValidIps(ips) == SelectSeq(ips, IsValidIp)

\* _parse_linux_resolvers, the loop over the lines of /etc/resolv.conf: the
\* second word of every line that starts with "nameserver".
RECURSIVE LinuxIps(_)
LinuxIps(lines) ==
    IF lines = <<>> THEN <<>>
    ELSE (IF Head(lines).key = "nameserver" /\ Head(lines).pieces # <<>>
          THEN << Head(lines).pieces[1] >> ELSE <<>>)
         \o LinuxIps(Tail(lines))

\* _parse_macos_resolvers, the loop over the lines of scutil --dns: the text
\* after the first colon of every line that has "nameserver" in it.
RECURSIVE MacosIps(_)
MacosIps(lines) ==
    IF lines = <<>> THEN <<>>
    ELSE (IF Head(lines).key = "nameserver[0]"
          THEN << Head(lines).pieces[1] >> ELSE <<>>)
         \o MacosIps(Tail(lines))

\* _parse_windows_resolvers, the loop over the lines of ipconfig /all from
\* line idx on, resolvers being what was appended so far: the text after
\* the colon of a "DNS Servers" line, and, once there is a resolver, any
\* other line that is not empty and not a header without a colon.
RECURSIVE WindowsResolvers(_, _, _)
WindowsResolvers(lines, idx, resolvers) ==
    IF idx > Len(lines) THEN resolvers
    ELSE LET line == lines[idx] IN
         CASE line.key = "dns servers" /\ Len(line.pieces) = 1 ->
                WindowsResolvers(lines, idx + 1, resolvers \o ValidIps(line.pieces))
           [] line.key = "" /\ line.pieces # <<>> /\ resolvers # <<>> ->
                WindowsResolvers(lines, idx + 1, resolvers \o ValidIps(line.pieces))
           [] OTHER ->
                WindowsResolvers(lines, idx + 1, resolvers)

\* subprocess.run(...) returned with a returncode other than 0: nothing is
\* raised and the output is not read.
ExitedNonZero == [ raises |-> None, lines |-> <<>> ]

\* The system get_local_resolvers runs on: platform.system().lower() and
\* what reading /etc/resolv.conf or running the command gives.
LocalSystems ==
    { [ system |-> "linux", source |-> source ] :
        source \in { Gives(text) :
                        text \in Texts(ResolvConfLines
                                       \cup { Line("nameserver", << "2001:db8::1" >>, 0) },
                                       MaxLines) }
                   \cup { Fails("FileNotFoundError"), Fails("PermissionError"),
                          Fails("UnicodeDecodeError") } }
    \cup { [ system |-> "darwin", source |-> source ] :
        source \in { Gives(text) : text \in Texts(ScutilLines, MaxLines + 1) }
                   \cup { Fails("FileNotFoundError"), Fails("TimeoutExpired"),
                          Fails("PermissionError"), ExitedNonZero } }
    \cup { [ system |-> "windows", source |-> source ] :
        source \in { Gives(text) : text \in Texts(IpconfigLines, MaxLines + 1) }
                   \cup { Fails("FileNotFoundError"), Fails("TimeoutExpired"),
                          Fails("PermissionError"), ExitedNonZero } }
    \cup { [ system |-> "freebsd", source |-> Fails("FileNotFoundError") ] }

\* The exceptions the three parsers catch themselves (lines 57, 90, 129):
\* OSError and its subclasses on Linux, the failures of subprocess.run
\* elsewhere. Any other one leaves the parser.
ParserCatches(system) ==
    IF system = "linux" THEN { "FileNotFoundError", "PermissionError", "OSError" }
    ELSE { "FileNotFoundError", "TimeoutExpired", "SubprocessError" }

\* except Exception (line 187): every exception a parser lets through.
LocalCatches ==
    { "FileNotFoundError", "PermissionError", "OSError", "TimeoutExpired",
      "SubprocessError", "UnicodeDecodeError" }

\* Where the exception of reading the source ends: in the parser, in
\* get_local_resolvers, or nowhere.
CaughtBy(sys) ==
    CASE sys.source.raises = None -> None
      [] sys.system \notin { "linux", "darwin", "windows" } -> None
      [] sys.source.raises \in ParserCatches(sys.system) -> "parser"
      [] sys.source.raises \in LocalCatches -> "get_local_resolvers"
      [] OTHER -> "nobody"

\* The try statement of get_local_resolvers: the list the platform's parser
\* returns, or the empty list resolvers is bound to before the try, if the
\* platform has no parser or an exception left it.
ParsedResolvers(sys) ==
    IF CaughtBy(sys) # None THEN <<>>
    ELSE CASE sys.system = "linux"   -> ValidIps(LinuxIps(sys.source.lines))
           [] sys.system = "darwin"  -> ValidIps(MacosIps(sys.source.lines))
           [] sys.system = "windows" -> WindowsResolvers(sys.source.lines, 1, <<>>)
           [] OTHER                  -> <<>>

\* _deduplicate_resolvers(resolvers)
RECURSIVE DeduplicateResolvers(_)
DeduplicateResolvers(resolvers) ==
    IF resolvers = <<>> THEN <<>>
    ELSE << Head(resolvers) >>
         \o DeduplicateResolvers(SelectSeq(Tail(resolvers),
                                           LAMBDA r : r # Head(resolvers)))

\* A mutant of OrLoopback: the empty list is returned as it is.
OrLoopbackNot(resolvers) == resolvers

\* if not resolvers: resolvers = ["127.0.0.1"]
OrLoopback(resolvers) == IF resolvers = <<>> THEN << "127.0.0.1" >> ELSE resolvers

InitLocal ==
    /\ NoEngine
    /\ twin = NoTwin
    /\ runner = NoRunner
    /\ analyzer = NoAnalyzer
    /\ container = NoContainer
    /\ detection = NoDetection
    /\ cli = NoCli
    /\ \E sys \in LocalSystems :
        local = [ pc |-> "called", sys |-> sys, parsed |-> <<>>, returned |-> <<>> ]

\* resolvers = get_local_resolvers(); local.parsed is the list before
\* _deduplicate_resolvers. An exception that no except clause catches
\* leaves the function.
GetLocalResolvers ==
    /\ local.pc = "called"
    /\ local' = IF CaughtBy(local.sys) = "nobody"
                THEN [local EXCEPT !.pc = "raised"]
                ELSE [local EXCEPT
                        !.pc = "returned",
                        !.parsed = ParsedResolvers(local.sys),
                        !.returned = OrLoopback(DeduplicateResolvers(
                                                    ParsedResolvers(local.sys)))]
    /\ UNCHANGED << engineVars, twin, runner, analyzer, container, detection, cli >>

NextLocal == GetLocalResolvers

SpecLocal == InitLocal /\ [][NextLocal]_vars

\* ======================================================== local_dns/cli.py
\* main(argv): collect the manual overrides, run a detection pass on the
\* platform and choose the stage and the exit code.

\* What --config names: nothing, or a file whose read or parse fails, or
\* JSON data: a dictionary with a 'resolvers' list (of entries, one of them
\* blank), a dictionary without one, or something that is no dictionary.
NoConfigFile == [ given |-> FALSE, raises |-> None, data |-> "none", resolvers |-> <<>> ]

ConfigFile(raises, data, resolvers) ==
    [ given |-> TRUE, raises |-> raises, data |-> data, resolvers |-> resolvers ]

ConfigFiles ==
    { NoConfigFile,
      ConfigFile("FileNotFoundError", "none", <<>>),
      ConfigFile("JSONDecodeError", "none", <<>>),
      ConfigFile("PermissionError", "none", <<>>),
      ConfigFile(None, "list", <<>>),
      ConfigFile(None, "dict", <<>>),
      ConfigFile(None, "dict-with-resolvers", << <<>>, << "8.8.8.8" >> >>),
      ConfigFile(None, "dict-with-resolvers", << << "invalid-ip" >> >>) }

\* What a call that returns a list of entries can end in.
Entries(entries) == [ raises |-> None, entries |-> entries ]

EntriesRaise(cls) == [ raises |-> cls, entries |-> <<>> ]

\* _load_config_overrides(path): FileNotFoundError and JSONDecodeError
\* become ValueError, any other failure of the read goes through; the
\* items of the 'resolvers' list that are not blank, or ValueError.
LoadConfigOverrides(file) ==
    IF file.raises \in { "FileNotFoundError", "JSONDecodeError" } THEN EntriesRaise("ValueError")
    ELSE IF file.raises # None THEN EntriesRaise(file.raises)
    ELSE IF file.data = "dict-with-resolvers"
    THEN Entries(SelectSeq(file.resolvers, LAMBDA item : item # <<>>))
    ELSE EntriesRaise("ValueError")

\* _collect_manual_overrides(args): the --resolver entries, then those of
\* the config file unless loading it raised ValueError.
CollectManualOverrides(args) ==
    LET loaded == IF args.config.given THEN LoadConfigOverrides(args.config)
                  ELSE Entries(<<>>)
    IN IF loaded.raises = None
       THEN [ raises |-> None,
              resolvers |-> ParseOverrideAddresses(args.resolvers \o loaded.entries) ]
       ELSE IF loaded.raises = "ValueError"
       THEN [ raises |-> None, resolvers |-> ParseOverrideAddresses(args.resolvers) ]
       ELSE [ raises |-> loaded.raises, resolvers |-> <<>> ]

\* How socket.getaddrinfo("example.com", 53) can end.
GetaddrinfoOutcomes == { "returned", "gaierror", "OSError" }

\* _system_api_available(): True, or False for socket.gaierror; anything
\* else getaddrinfo raises goes through.
SystemApiAvailable(outcome) ==
    CASE outcome = "returned" -> [ raises |-> None, available |-> TRUE ]
      [] outcome = "gaierror" -> [ raises |-> None, available |-> FALSE ]
      [] OTHER                -> [ raises |-> outcome, available |-> FALSE ]

\* _system_resolver_placeholder()
SystemResolverPlaceholder ==
    ResolverEndpoint("system-default", 0, "system-api",
                     Metadata("system", NoIndex, None, NoIndex, None, None, None))

Chosen(stage, resolvers) == [ stage |-> stage, resolvers |-> resolvers ]

\* A mutant of Fallback: the manual overrides are preferred to the system
\* API.
FallbackOverridesFirst(available, manual_resolvers) ==
    IF manual_resolvers # <<>> THEN Chosen("override", manual_resolvers)
    ELSE IF available THEN Chosen("system", << SystemResolverPlaceholder >>)
    ELSE Chosen("none", <<>>)

\* The else branch of main (lines 146-160), detection having found nothing.
Fallback(available, manual_resolvers) ==
    IF available THEN Chosen("system", << SystemResolverPlaceholder >>)
    ELSE IF manual_resolvers # <<>> THEN Chosen("override", manual_resolvers)
    ELSE Chosen("none", <<>>)

\* _summarise(stage, report, resolvers, manual_overrides): the payload.
Summarise(stage, report, resolvers, manual_overrides) ==
    [ stage |-> stage, errors |-> report.errors, resolvers |-> resolvers,
      manual_overrides |-> manual_overrides ]

\* return 1 if stage == "none" else 0
ExitCode(stage) == IF stage = "none" THEN 1 ELSE 0

\* The command lines: --resolver entries, --config and --summary.
CliArgs ==
    { [ resolvers |-> resolvers, config |-> config, summary |-> summary ] :
        resolvers \in Texts({ << "1.1.1.1", "", "8.8.8.8" >>, << "invalid-ip" >> }, 1),
        config \in ConfigFiles,
        summary \in BOOLEAN }

\* The platforms main runs on: a Linux host without NetworkManager whose
\* /etc/resolv.conf has at most one line or cannot be read.
CliPlatforms ==
    { DetectorConfig("linux", resolv_conf, NoDirectory, Fails("FileNotFoundError")) :
        resolv_conf \in { Gives(text) : text \in Texts(ResolvConfLines, 1) }
                        \cup { Fails("FileNotFoundError"), Fails("PermissionError") } }

\* No exit code yet.
NoExitCode == -1

\* main has been called: nothing is chosen yet.
Called(args, platform, getaddrinfo) ==
    [ pc |-> "called", args |-> args, platform |-> platform,
      getaddrinfo |-> getaddrinfo, queried |-> FALSE,
      manual_resolvers |-> <<>>, report |-> DetectionReport(<<>>, <<>>),
      stage |-> None, active_resolvers |-> <<>>, printed |-> <<>>,
      code |-> NoExitCode, raises |-> None ]

InitCli ==
    /\ NoEngine
    /\ twin = NoTwin
    /\ runner = NoRunner
    /\ analyzer = NoAnalyzer
    /\ container = NoContainer
    /\ detection = NoDetection
    /\ local = NoLocal
    /\ \E args \in CliArgs, platform \in CliPlatforms, getaddrinfo \in GetaddrinfoOutcomes :
            cli = Called(args, platform, getaddrinfo)

\* main raises out of _collect_manual_overrides: the config file could not
\* be read for a reason other than its absence.
MainRaisesCollecting ==
    /\ cli.pc = "called"
    /\ CollectManualOverrides(cli.args).raises # None
    /\ cli' = [cli EXCEPT !.pc = "raised",
                          !.raises = CollectManualOverrides(cli.args).raises]
    /\ UNCHANGED << engineVars, twin, runner, analyzer, container, detection, local >>

\* main raises out of _system_api_available: detection found nothing and
\* getaddrinfo raised something that is no gaierror.
MainRaisesAsking ==
    /\ cli.pc = "called"
    /\ CollectManualOverrides(cli.args).raises = None
    /\ DetectResolvers(cli.platform).resolvers = <<>>
    /\ SystemApiAvailable(cli.getaddrinfo).raises # None
    /\ cli' = [cli EXCEPT !.pc = "raised",
                          !.queried = TRUE,
                          !.manual_resolvers = CollectManualOverrides(cli.args).resolvers,
                          !.report = DetectResolvers(cli.platform),
                          !.raises = SystemApiAvailable(cli.getaddrinfo).raises]
    /\ UNCHANGED << engineVars, twin, runner, analyzer, container, detection, local >>

\* main returns: the detected resolvers are the active ones, or else the
\* fallback is chosen; the summary is printed if asked for.
MainReturns ==
    LET manual_resolvers == CollectManualOverrides(cli.args).resolvers
        report == DetectResolvers(cli.platform)
        asked  == report.resolvers = <<>>
        chosen == IF asked
                  THEN Fallback(SystemApiAvailable(cli.getaddrinfo).available,
                                manual_resolvers)
                  ELSE Chosen("detected", report.resolvers)
    IN /\ cli.pc = "called"
       /\ CollectManualOverrides(cli.args).raises = None
       /\ asked => SystemApiAvailable(cli.getaddrinfo).raises = None
       /\ cli' = [cli EXCEPT
                    !.pc = "returned",
                    !.queried = asked,
                    !.manual_resolvers = manual_resolvers,
                    !.report = report,
                    !.stage = chosen.stage,
                    !.active_resolvers = chosen.resolvers,
                    !.printed = IF cli.args.summary
                                THEN << Summarise(chosen.stage, report, chosen.resolvers,
                                                  manual_resolvers) >>
                                ELSE <<>>,
                    !.code = ExitCode(chosen.stage)]
       /\ UNCHANGED << engineVars, twin, runner, analyzer, container, detection, local >>

NextCli == MainRaisesCollecting \/ MainRaisesAsking \/ MainReturns

SpecCli == InitCli /\ [][NextCli]_vars

\* ------------------------------------------------------------- properties
\* The elements of a sequence.
Range(seq) == { seq[i] : i \in 1 .. Len(seq) }

\* The measurements the finished tasks have produced so far.
Produced == { result[t] : t \in { u \in Tasks : pc[u] = "done" } }

\* Every measurement there is: produced by a task, gathered, or returned.
AllMeasurements == Produced \cup Range(measurements) \cup Range(returned)

\* C1: after run() the returned list holds exactly
\* iterations x |providers| x |domains| measurements (none when iterations is
\* below 1), and every generated job has exactly one measurement in it, the
\* one its task produced, carrying the job's iteration, provider and domain.
C1_OneMeasurementPerJob ==
    enginePc = "returned" =>
        /\ Len(returned) = Max(0, engine.iterations) * Len(engine.providers)
                                                     * Len(engine.domains)
        /\ Len(jobs) = Len(returned)
        /\ \A t \in Tasks :
            /\ Cardinality({ i \in 1 .. Len(returned) :
                               /\ returned[i].iteration = jobs[t].iteration
                               /\ returned[i].provider = jobs[t].provider
                               /\ returned[i].domain = jobs[t].domain }) = 1
            /\ Cardinality({ i \in 1 .. Len(returned) : returned[i] = result[t] }) = 1
            /\ result[t].iteration = jobs[t].iteration
            /\ result[t].provider = jobs[t].provider
            /\ result[t].domain = jobs[t].domain

\* C1 witness: a run of three jobs has returned a success, a timeout and a
\* failure that used up a retry.
C1_Witness ==
    /\ enginePc = "returned"
    /\ Len(returned) = 3
    /\ \E i, j, k \in 1 .. Len(returned) :
        /\ returned[i].success
        /\ returned[j].error_type = "timeout"
        /\ ~returned[k].success /\ returned[k].retry_count >= 1
                                /\ returned[k].error_type # "timeout"

\* The tasks that own a limiter slot: past `async with self._semaphore` and
\* not yet out of it, or handed a slot and about to resume.
PastGate == { t \in Tasks : pc[t] \in { "woken", "querying", "backoff" } }

\* C2: in every reachable state at most `concurrency` jobs are past the
\* limiter gate, whether in a query attempt or in a backoff sleep.
C2_ConcurrencyCap ==
    /\ Cardinality(PastGate) <= engine.concurrency
    /\ Cardinality({ t \in Tasks : acquires[t] > releases[t] }) <= engine.concurrency
    /\ semValue >= 0

\* C2 witness: the limiter is full, with one job sleeping in backoff and one
\* in a query, while another job waits at the gate.
C2_Witness ==
    /\ Cardinality(PastGate) = engine.concurrency
    /\ \E t, u, w \in Tasks :
        /\ pc[t] = "backoff"
        /\ pc[u] = "querying"
        /\ pc[w] = "waiting"

\* C3: a job acquires exactly one slot before its first attempt, holds that
\* slot through every retry and backoff sleep, and releases it only once its
\* terminal outcome is determined.
C3_OneSlotPerJob ==
    \A t \in Tasks :
        /\ acquires[t] <= 1
        /\ releases[t] <= acquires[t]
        /\ locals[t].attempts >= 1 => acquires[t] = 1
        /\ pc[t] \in { "created", "waiting", "woken" } =>
                acquires[t] = 0 /\ locals[t].attempts = 0
        /\ pc[t] \in { "querying", "backoff" } => acquires[t] = 1 /\ releases[t] = 0
        /\ releases[t] = 1 <=> pc[t] = "done"

\* C3 witness: a job that was retried after a backoff sleep has finished,
\* having acquired once and released once, and its slot has gone to a job
\* that was waiting at the gate.
C3_Witness ==
    \E t, u \in Tasks :
        /\ pc[t] = "done"
        /\ sleeps[t] >= 1
        /\ acquires[t] = 1
        /\ releases[t] = 1
        /\ pc[u] = "woken"

\* C4: every measurement has attempts = retry_count + 1 and
\* retry_count <= max_retries.
C4_AttemptsAndRetries ==
    \A m \in AllMeasurements :
        /\ m.attempts = m.retry_count + 1
        /\ m.retry_count <= engine.max_retries
        /\ m.retry_count >= 0

\* C4 witness: run() has returned one measurement that used up every retry
\* of a positive budget and one that needed none.
C4_Witness ==
    /\ enginePc = "returned"
    /\ engine.max_retries >= 1
    /\ \E i, j \in 1 .. Len(returned) :
        /\ returned[i].retry_count = engine.max_retries
        /\ returned[j].retry_count = 0

\* C5: an attempt that times out ends its job at once: the job is done with
\* a failed measurement of error_type "timeout" built from that very attempt,
\* with no further attempt and no backoff sleep, whatever budget remains.
C5_TimeoutIsTerminal ==
    \A t \in Tasks :
        IsInstance(raised[t], "TimeoutError") =>
            /\ pc[t] = "done"
            /\ ~result[t].success
            /\ result[t].error_type = "timeout"
            /\ result[t].attempts = locals[t].attempts
            /\ result[t].retry_count = locals[t].retries
            /\ sleeps[t] = locals[t].retries

\* C5 witness: a job timed out on its first attempt with retries left.
C5_Witness ==
    \E t \in Tasks :
        /\ raised[t] = "TimeoutError"
        /\ locals[t].attempts = 1
        /\ locals[t].retries < engine.max_retries

\* The measurements of error_type "timeout", each with the task it is of.
TimedOut == { t \in Tasks : pc[t] = "done" /\ result[t].error_type = "timeout" }

\* C6 as stated: every measurement of error_type "timeout" has
\* retry_count = 0.
C6_TimeoutRetryCountZero ==
    \A m \in AllMeasurements : m.error_type = "timeout" => m.retry_count = 0

\* C6 as amended: a measurement of error_type "timeout" has retry_count equal
\* to the number of retries (backoff sleeps) its job made before the attempt
\* that timed out, which is 0 exactly when the first attempt timed out; the
\* timed-out attempt itself adds no retry.
C6_TimeoutAddsNoRetry ==
    \A t \in TimedOut :
        /\ IsInstance(raised[t], "TimeoutError")
        /\ result[t].retry_count = sleeps[t]
        /\ result[t].retry_count = 0 <=> result[t].attempts = 1

\* C6 witness: a job was rate limited, retried, and then timed out.
C6_Witness ==
    \E t \in TimedOut :
        /\ result[t].retry_count >= 1
        /\ sleeps[t] >= 1

\* The attempt of task t ends in this step with an exception of class cls.
AttemptRaises(t, cls) == raised[t] = None /\ IsInstance(raised'[t], cls)

\* Task t's backoff sleep ends in this step.
SleepEnds(t) == pc[t] = "backoff" /\ pc'[t] # "backoff"

\* The step leaves task t asleep in backoff, its counters as they were.
NowSleeping(t) ==
    /\ pc'[t] = "backoff"
    /\ sleeps'[t] = sleeps[t] + 1
    /\ locals'[t].retries = locals[t].retries
    /\ locals'[t].attempts = locals[t].attempts

\* The step makes task t's next attempt, with one more retry counted.
NowRetrying(t) ==
    /\ pc'[t] = "querying"
    /\ locals'[t].retries = locals[t].retries + 1
    /\ locals'[t].attempts = locals[t].attempts + 1

\* The step ends task t with a failed measurement of the given error_type,
\* built from the attempt that just failed.
NowFailed(t, error_type) ==
    /\ pc'[t] = "done"
    /\ ~result'[t].success
    /\ result'[t].error_type = error_type
    /\ result'[t].retry_count = locals[t].retries
    /\ result'[t].attempts = locals[t].attempts
    /\ sleeps'[t] = sleeps[t]

\* C7: when an attempt fails with a rate limit, the job sleeps in backoff if
\* retry_count < max_retries, and then increments retry_count by one and
\* makes another attempt; otherwise retry_count = max_retries and the job
\* ends with a failed measurement of error_type "rate_limit".
C7_RateLimitPolicy ==
    [][ \A t \in Tasks :
          /\ AttemptRaises(t, "ProviderRateLimitError") =>
                IF locals[t].retries < engine.max_retries
                THEN NowSleeping(t)
                ELSE /\ locals[t].retries = engine.max_retries
                     /\ NowFailed(t, "rate_limit")
          /\ (SleepEnds(t) /\ IsInstance(raised[t], "ProviderRateLimitError")) =>
                NowRetrying(t)
      ]_vars

\* C7 witness: one job has ended with "rate_limit" after using up a positive
\* retry budget, and another sleeps in backoff after a rate limit.
C7_Witness ==
    \E t, u \in Tasks :
        /\ engine.max_retries >= 1
        /\ pc[t] = "done"
        /\ raised[t] = "ProviderRateLimitError"
        /\ result[t].error_type = "rate_limit"
        /\ result[t].retry_count = engine.max_retries
        /\ pc[u] = "backoff"
        /\ raised[u] = "ProviderRateLimitError"

\* A DNSBenchError that is not a rate limit.
IsQueryFailure(cls) ==
    /\ IsInstance(cls, "DNSBenchError")
    /\ ~IsInstance(cls, "ProviderRateLimitError")

\* C8: when an attempt fails with a ProviderQueryError or any other
\* DNSBenchError that is not a rate limit, the job follows the rate-limit
\* policy (backoff and retry while retry_count < max_retries, else a terminal
\* failure) and the terminal error_type is the failure's class name.
C8_QueryErrorPolicy ==
    [][ \A t \in Tasks :
          /\ (raised[t] = None /\ IsQueryFailure(raised'[t])) =>
                IF locals[t].retries < engine.max_retries
                THEN NowSleeping(t)
                ELSE /\ locals[t].retries = engine.max_retries
                     /\ NowFailed(t, raised'[t])
          /\ (SleepEnds(t) /\ IsQueryFailure(raised[t])) => NowRetrying(t)
      ]_vars

\* C8 witness: one job has ended with error_type "DNSBenchError" after using
\* up a positive retry budget, and another sleeps in backoff after a
\* ProviderQueryError.
C8_Witness ==
    \E t, u \in Tasks :
        /\ engine.max_retries >= 1
        /\ pc[t] = "done"
        /\ raised[t] = "DNSBenchError"
        /\ result[t].error_type = "DNSBenchError"
        /\ result[t].retry_count = engine.max_retries
        /\ pc[u] = "backoff"
        /\ raised[u] = "ProviderQueryError"

\* An exception that is neither a timeout nor a DNSBenchError.
IsUnexpected(cls) ==
    /\ IsInstance(cls, "Exception")
    /\ ~IsInstance(cls, "TimeoutError")
    /\ ~IsInstance(cls, "DNSBenchError")

\* C9: an attempt that fails with an exception that is neither a timeout nor
\* a DNSBenchError ends its job at once: the job is done with a failed
\* measurement whose error_type is the exception's class name, with no
\* retry and no backoff sleep, even when retries remain.
C9_UnexpectedIsTerminal ==
    \A t \in Tasks :
        IsUnexpected(raised[t]) =>
            /\ pc[t] = "done"
            /\ ~result[t].success
            /\ result[t].error_type = raised[t]
            /\ result[t].attempts = locals[t].attempts
            /\ result[t].retry_count = locals[t].retries
            /\ sleeps[t] = locals[t].retries

\* C9 witness: a ValueError on a first attempt, and a gaierror, each with
\* retries left.
C9_Witness ==
    \E t, u \in Tasks :
        /\ raised[t] = "ValueError"
        /\ locals[t].attempts = 1
        /\ locals[t].retries < engine.max_retries
        /\ raised[u] = "gaierror"
        /\ locals[u].retries < engine.max_retries

\* C10: a successful measurement has error_type and error_message both
\* None; a failed measurement has both set.
C10_ErrorFieldsIffFailure ==
    \A m \in AllMeasurements :
        /\ m.success => m.error_type = None /\ m.error_message = None
        /\ ~m.success => m.error_type # None /\ m.error_message # None

\* C10 witness: a success that followed a failed attempt, and a failure whose
\* exception has an empty str().
C10_Witness ==
    \E m, n \in AllMeasurements :
        /\ m.success
        /\ m.retry_count >= 1
        /\ ~n.success
        /\ n.error_message = ""

\* ---------------------------------------------------------------- C11
\* run() has returned one measurement per job, every job is in its terminal
\* state and has made between 1 and max_retries + 1 attempts.
Terminated ==
    /\ enginePc = "returned"
    /\ Len(returned) = Len(jobs)
    /\ \A t \in Tasks :
        /\ pc[t] = "done"
        /\ locals[t].attempts >= 1
        /\ locals[t].attempts <= engine.max_retries + 1

\* C11: under fair scheduling a run that was started terminates: every job
\* reaches its terminal state after at most max_retries + 1 attempts,
\* whatever its provider does (an attempt that is never answered is cut
\* off by its deadline), and run() returns the full batch.
C11_RunTerminates == (enginePc = "ready") ~> Terminated

\* A run has terminated in which one job used all its max_retries + 1 >= 2
\* attempts and another job's provider never answered.
C11_Witness ==
    /\ Terminated
    /\ \E t, u \in Tasks :
        /\ t # u
        /\ engine.max_retries >= 1
        /\ locals[t].attempts = engine.max_retries + 1
        /\ raised[u] = "TimeoutError"

\* ---------------------------------------------------------------- C12
\* The jobs whose last attempt ended in a failure of its query.
QueryFailed ==
    { t \in Tasks : pc[t] = "done" /\ IsInstance(raised[t], "Exception") }

\* A failed job has left a failed measurement of itself, not an exception.
FailureBecomesMeasurement(t) ==
    /\ ~IsException(result[t])
    /\ result[t].success = FALSE
    /\ result[t].error_type # None
    /\ result[t].error_message # None
    /\ result[t].provider = jobs[t].provider
    /\ result[t].domain = jobs[t].domain
    /\ result[t].iteration = jobs[t].iteration

\* The step in which an attempt of task t fails touches no other task's
\* locals or measurement.
FailureTouchesOnlyItsJob(t) ==
    AttemptRaises(t, "Exception") =>
        \A u \in Tasks \ { t } : result'[u] = result[u] /\ locals'[u] = locals[u]

\* C12: no failure of a query (rate limit, query failure, timeout,
\* unexpected exception) leaves run() as an exception: run() never raises,
\* the failure becomes the fields of a failed measurement of its own job,
\* and the failing step changes no other job's measurement.
C12_FailuresAreContained ==
    /\ [](enginePc # "raised" /\ \A t \in QueryFailed : FailureBecomesMeasurement(t))
    /\ [][\A t \in Tasks : FailureTouchesOnlyItsJob(t)]_vars

\* run() has returned a batch in which one job failed with an unexpected
\* exception, one with a timeout, and a third succeeded.
C12_Witness ==
    /\ enginePc = "returned"
    /\ \E t, u, v \in Tasks :
        /\ ExceptClause(raised[t]) = "unexpected"
        /\ raised[u] = "TimeoutError"
        /\ raised[v] = "returned"
        /\ result[v].success
        /\ result[v] \in Range(returned)

\* ---------------------------------------------------------------- C13
\* The measurements of the first n jobs to reach their terminal outcome, in
\* that order.
InCompletionOrder(n) == [ i \in 1 .. n |-> result[doneOrder[i]] ]

\* C13: run() gathers and returns the measurements in completion order (a
\* job that reached its terminal outcome earlier comes earlier in the
\* list), and it returns only when every job is terminal.
C13_CompletionOrder ==
    /\ Len(measurements) <= Len(doneOrder)
    /\ measurements = InCompletionOrder(Len(measurements))
    /\ enginePc = "returned" =>
        /\ \A t \in Tasks : pc[t] = "done"
        /\ Len(doneOrder) = Len(jobs)
        /\ returned = InCompletionOrder(Len(jobs))
        /\ \A i, j \in 1 .. Len(jobs) :
            i < j => \E a, b \in 1 .. Len(returned) :
                /\ a < b
                /\ returned[a] = result[doneOrder[i]]
                /\ returned[b] = result[doneOrder[j]]

\* run() has returned a batch whose completion order is not the order in
\* which the jobs were generated: a later job finished before an earlier.
C13_Witness ==
    /\ enginePc = "returned"
    /\ \E i, j \in 1 .. Len(doneOrder) :
        /\ i < j
        /\ doneOrder[i] > doneOrder[j]
        /\ returned[i] = result[doneOrder[i]]
        /\ returned[i] # result[i]

\* ---------------------------------------------------------------- C14
\* The log records of the measurements of a list, in the list's order.
RecordsOf(ms) == [ i \in 1 .. Len(ms) |-> LogRecord(ms[i]) ]

\* C14: every completed measurement is logged exactly once, when run()
\* takes it from the finished task (so before run() returns), and the
\* logged sequence is the returned list, measurement for measurement.
C14_LoggedOnceInOrder ==
    /\ logged = RecordsOf(measurements)
    /\ \A i, j \in 1 .. Len(logged) : i # j => logged[i] # logged[j]
    /\ enginePc = "returned" =>
        /\ Len(logged) = Len(jobs)
        /\ \A t \in Tasks :
            Cardinality({ i \in 1 .. Len(logged) : logged[i].payload = result[t] }) = 1
        /\ \A i \in 1 .. Len(returned) :
            /\ logged[i].message = "dns_bench.measurement"
            /\ logged[i].payload = returned[i]

\* While a third job is still running, two measurements have been logged,
\* the later-generated job's first; and run() has not returned yet.
C14_Witness ==
    /\ enginePc = "running"
    /\ Len(logged) = 2
    /\ \E t \in Tasks : pc[t] # "done"
    /\ \E t, u \in Tasks :
        /\ t > u
        /\ pc[t] = "done" /\ pc[u] = "done"
        /\ logged[1].payload = result[t]
        /\ logged[2].payload = result[u]

\* ---------------------------------------------------------------- C15
\* The jobs that have reached their terminal outcome.
Done == { t \in Tasks : pc[t] = "done" }

\* C15: every terminal measurement carries started_at from its job's very
\* first attempt and finished_at from the attempt that produced the
\* terminal outcome, also when earlier attempts were retried.
C15_StartedAtOfFirstAttempt ==
    \A t \in Done :
        /\ result[t].started_at = starts[t][1]
        /\ result[t].finished_at = clock[t]

\* ---------------------------------------------------------------- C16
\* The duration, in ticks, of the attempt that ended job t: from the start
\* of its last attempt to its terminal outcome.
TerminalAttemptTicks(t) == clock[t] - starts[t][Len(starts[t])]

\* C16: latency_ms of a terminal measurement is the duration of the
\* terminal attempt only, in milliseconds, and never None: the earlier
\* attempts and the backoff sleeps of the job are not part of it.
C16_LatencyOfTerminalAttempt ==
    \A t \in Done :
        /\ result[t].latency_ms # NoTime
        /\ result[t].latency_ms \in Nat
        /\ Len(starts[t]) = result[t].attempts
        /\ result[t].latency_ms = TerminalAttemptTicks(t) * MsPerTick
        /\ result[t].attempts > 1 =>
            result[t].latency_ms < (clock[t] - starts[t][1]) * MsPerTick

\* A job that was retried after a backoff sleep has ended with an answer:
\* its latency is that of the last attempt, shorter than the sleep alone.
C16_Witness ==
    \E t \in Done :
        /\ result[t].attempts >= 2
        /\ raised[t] = "returned"
        /\ delays[t] # <<>>
        /\ result[t].latency_ms < delays[t][1] * MsPerTick

\* ---------------------------------------------------------------- C17
\* C17: the deadline bounds each attempt separately. An attempt in flight
\* has the full query_timeout ahead of it and can still be answered,
\* however long the job has been running; an attempt is cut off exactly
\* when it alone has lasted query_timeout, an answered attempt was
\* shorter; and a backoff sleep runs for its full delay even when that
\* is longer than query_timeout.
C17_DeadlinePerAttempt ==
    \A t \in Tasks :
        LET last == Len(starts[t]) IN
        /\ pc[t] = "querying" =>
            /\ clock[t] = starts[t][last]
            /\ AnsweredAt(t) # {}
            /\ RaisedAt(t, DeadlineElapsed) = { starts[t][last] + engine.query_timeout }
        /\ (pc[t] \in { "backoff", "done" } /\ raised[t] = "TimeoutError") =>
            clock[t] - starts[t][last] = engine.query_timeout
        /\ (pc[t] \in { "backoff", "done" } /\ raised[t] # "TimeoutError") =>
            clock[t] - starts[t][last] < engine.query_timeout
        /\ \A k \in 1 .. Len(delays[t]) :
            k < last => starts[t][k + 1] - starts[t][k] >= delays[t][k]

\* A job slept longer than query_timeout between its attempts, so that its
\* second attempt began after a deadline counted from the first would have
\* passed, and that attempt was answered in time.
C17_Witness ==
    \E t \in Done :
        /\ Len(starts[t]) >= 2
        /\ delays[t][1] > engine.query_timeout
        /\ starts[t][2] >= starts[t][1] + engine.query_timeout
        /\ raised[t] = "returned"
        /\ result[t].success

\* ---------------------------------------------------------------- C18
\* min(backoff_max, backoff_base * 2^r), the delay without its jitter.
CappedExponential(r) ==
    IF engine.backoff_base * 2^r < engine.backoff_max
    THEN engine.backoff_base * 2^r
    ELSE engine.backoff_max

\* C18: the k-th backoff sleep of a job, taken at retry count r = k - 1 (the
\* count before it is incremented for this retry), lasts
\* min(backoff_max, backoff_base * 2^r), plus, only when jitter > 0, a
\* value of [0, jitter).
C18_BackoffDelay ==
    \A t \in Tasks :
        /\ pc[t] = "backoff" => locals[t].retries = Len(delays[t]) - 1
        /\ \A k \in 1 .. Len(delays[t]) :
            LET jitter == delays[t][k] - CappedExponential(k - 1) IN
            IF engine.backoff_jitter > 0
            THEN 0 <= jitter /\ jitter < engine.backoff_jitter
            ELSE jitter = 0

\* With jitter > 0 a job has slept twice: first for exactly the base (2^0
\* and a draw of 0), then, the exponential being cut by the ceiling, for
\* more than backoff_max because of the jitter added on top.
C18_Witness ==
    \E t \in Tasks :
        /\ Len(delays[t]) >= 2
        /\ engine.backoff_jitter > 0
        /\ engine.backoff_base > 0
        /\ delays[t][1] = engine.backoff_base
        /\ engine.backoff_base * 2 > engine.backoff_max
        /\ delays[t][2] > engine.backoff_max

\* ---------------------------------------------------------------- C19
\* C19: with zero jitter the backoff delay never decreases from one retry
\* index to the next and never exceeds backoff_max, both as computed for
\* the retry indices 0 .. MaxBackoffRetries and as slept by the jobs.
C19_BackoffMonotone ==
    engine.backoff_jitter = 0 =>
        /\ \A r \in 0 .. MaxBackoffRetries :
            /\ ComputeBackoff(r, 0) <= ComputeBackoff(r + 1, 0)
            /\ ComputeBackoff(r, 0) <= engine.backoff_max
        /\ \A t \in Tasks : \A k \in 1 .. Len(delays[t]) :
            /\ delays[t][k] <= engine.backoff_max
            /\ k > 1 => delays[t][k - 1] <= delays[t][k]

\* With zero jitter a job has slept twice, the second time longer than the
\* first and for exactly backoff_max.
C19_Witness ==
    \E t \in Tasks :
        /\ engine.backoff_jitter = 0
        /\ Len(delays[t]) >= 2
        /\ delays[t][1] < delays[t][2]
        /\ delays[t][2] = engine.backoff_max

\* ---------------------------------------------------------------- C20
\* The jobs generated for iteration i: the i-th block of the job list.
JobsOfIteration(i) ==
    LET n == Len(engine.providers) * Len(engine.domains)
    IN [ k \in 1 .. n |-> jobs[(i - 1) * n + k] ]

\* Iteration i of every provider with every domain.
CrossProduct(i) ==
    { [iteration |-> i, provider |-> engine.providers[a], domain |-> engine.domains[b]] :
        a \in 1 .. Len(engine.providers), b \in 1 .. Len(engine.domains) }

\* C20: the job list is, for each iteration 1 .. iterations in turn, a
\* permutation of the full cross-product of the providers and the domains:
\* no pair is missing, none occurs twice, and the jobs of an iteration
\* come before those of the next, whatever the shuffles draw.
C20_JobsAreShuffledCrossProducts ==
    enginePc \in { "running", "returned" } =>
        LET n == Len(engine.providers) * Len(engine.domains) IN
        /\ Len(jobs) = Max(0, engine.iterations) * n
        /\ \A i \in 1 .. engine.iterations :
            /\ Range(JobsOfIteration(i)) = CrossProduct(i)
            /\ \A k, l \in 1 .. n :
                k # l => JobsOfIteration(i)[k] # JobsOfIteration(i)[l]
        /\ \A k, l \in 1 .. Len(jobs) :
            k < l => jobs[k].iteration <= jobs[l].iteration

\* A run whose shuffle moved another provider than the first configured
\* one to the front of the job list.
C20_Witness ==
    /\ enginePc = "running"
    /\ Len(engine.providers) >= 3
    /\ Len(jobs) = Len(engine.providers) * Len(engine.domains)
    /\ jobs[1].provider # engine.providers[1]
    /\ jobs[Len(jobs)].provider # engine.providers[Len(engine.providers)]

\* ---------------------------------------------------------------- C21
\* The fields of a measurement that are no reading of a clock.
Timeless(m) ==
    [ provider      |-> m.provider,
      domain        |-> m.domain,
      iteration     |-> m.iteration,
      attempts      |-> m.attempts,
      retry_count   |-> m.retry_count,
      success       |-> m.success,
      error_type    |-> m.error_type,
      error_message |-> m.error_message,
      addresses     |-> m.addresses ]

\* C21 as stated: two engines given the same seed, the same configuration
\* and fully deterministic providers generate the same job order and return
\* measurement lists with identical field values, compared as sets.
C21_TwinsAgreeInEveryField ==
    twin.engines = 2 =>
        /\ enginePc \in { "running", "returned" } => jobs = twin.jobs
        /\ enginePc = "returned" => Range(returned) = Range(twin.returned)

\* C21 as amended: the two engines generate the same job order and return
\* measurement lists that, compared as sets, agree in every field that is
\* not read from a clock, that is in all but started_at, finished_at and
\* latency_ms; started_at and finished_at are wall-clock readings and differ
\* when the engines run at different times.
C21_TwinsAgreeButForClocks ==
    twin.engines = 2 =>
        /\ enginePc \in { "running", "returned" } => jobs = twin.jobs
        /\ enginePc = "returned" =>
            /\ Len(returned) = Len(twin.returned)
            /\ { Timeless(m) : m \in Range(returned) }
                    = { Timeless(m) : m \in Range(twin.returned) }

\* The second engine has returned, later than the first and with its
\* measurements in another completion order; a job that was retried is
\* among them.
C21_Witness ==
    /\ twin.engines = 2
    /\ enginePc = "returned"
    /\ wall > 0
    /\ returned # twin.returned
    /\ \E i \in 1 .. Len(returned) :
        /\ returned[i].retry_count >= 1
        /\ Timeless(returned[i]) # Timeless(twin.returned[i])

\* ---------------------------------------------------------------- C22
\* C22: an engine constructed with an empty provider list or an empty
\* domain list is rejected by the constructor, and only such an engine is;
\* no job is built, no task made and no query attempted for it, then or
\* later, and an engine that was accepted never fails in run().
C22_EmptyListsFailAtConstruction ==
    /\ enginePc = "rejected" <=> (engine.providers = <<>> \/ engine.domains = <<>>)
    /\ enginePc = "rejected" =>
        /\ jobs = <<>>
        /\ pc = <<>>
        /\ locals = <<>>
        /\ measurements = <<>>
        /\ returned = <<>>
        /\ semValue = engine.concurrency
        /\ ~ENABLED Run
    /\ enginePc # "raised"

\* The constructor has rejected an engine whose provider list was not
\* empty, for its empty domain list.
C22_Witness ==
    /\ enginePc = "rejected"
    /\ engine.providers # <<>>
    /\ engine.domains = <<>>

\* ---------------------------------------------------------------- C23
\* The stored configuration that the constructor derives from numeric
\* arguments is within its ranges.
WithinRanges(e) ==
    /\ e.concurrency >= 1
    /\ e.max_retries >= 0
    /\ e.backoff_base >= 0
    /\ e.backoff_max >= e.backoff_base
    /\ e.backoff_jitter >= 0

\* C23: whatever numeric arguments the constructor is given, the stored
\* configuration has concurrency >= 1, max_retries >= 0,
\* backoff_max >= backoff_base >= 0 and backoff_jitter >= 0: for every
\* engine of a run, and for every combination of the arguments.
C23_StoredConfigurationWithinRanges ==
    /\ enginePc # "rejected" => WithinRanges(engine)
    /\ \A concurrency \in -1 .. MaxConcurrency, max_retries \in -1 .. MaxBackoffRetries,
          timing \in BackoffArgs :
            WithinRanges(EngineInit(engine.providers, engine.domains, engine.iterations,
                                    concurrency, max_retries, timing))

\* An accepted engine whose stored ceiling is none of the ceilings handed
\* to the constructor: the argument was below the base and was raised to
\* it; the base itself is positive.
C23_Witness ==
    /\ enginePc = "ready"
    /\ engine.backoff_max \notin { timing.backoff_max : timing \in BackoffArgs }
    /\ engine.backoff_max = engine.backoff_base
    /\ engine.backoff_base > 0

\* ---------------------------------------------------------------- C24
\* C24: no step of run(), job generation included, changes the engine's
\* configuration: the provider list and the domain list keep their
\* contents and their order, and every numeric setting its value.
C24_ConfigurationImmutable == [][engine' = engine]_vars

\* run() has returned after shuffles that put another provider than the
\* first configured one at the head of the job list and another than the
\* last at its end, and the engine's provider list is in neither order.
C24_Witness ==
    /\ enginePc = "returned"
    /\ Len(engine.providers) >= 3
    /\ jobs[1].provider # engine.providers[1]
    /\ jobs[Len(jobs)].provider # engine.providers[Len(engine.providers)]
    /\ engine.providers = <<"custom", "sim-flaky", "system">>

\* ---------------------------------------------------------------- C25
\* C25: a measurement is never changed after its creation. Whatever step
\* the run takes (another job starting, failing, timing out or finishing,
\* run() gathering, logging or returning), the measurement of a job that
\* is done, every measurement gathered so far, every record logged so
\* far and the list that was returned stay, field for field, what they
\* were.
C25_MeasurementsNeverMutated ==
    [][ /\ \A t \in Tasks :
            pc[t] = "done" => pc'[t] = "done" /\ result'[t] = result[t]
        /\ Len(measurements') >= Len(measurements)
        /\ \A i \in 1 .. Len(measurements) : measurements'[i] = measurements[i]
        /\ Len(logged') >= Len(logged)
        /\ \A i \in 1 .. Len(logged) : logged'[i] = logged[i]
        /\ enginePc = "returned" => returned' = returned
      ]_vars

\* The job that finished first has its measurement, as it was produced, at
\* the head of the returned list, after another job was cut off by its
\* deadline and a third was retried.
C25_Witness ==
    /\ enginePc = "returned"
    /\ Len(doneOrder) = 3
    /\ returned[1] = result[doneOrder[1]]
    /\ returned[1].finished_at = clock[doneOrder[1]]
    /\ \E u, v \in Tasks \ { doneOrder[1] } :
        /\ raised[u] = "TimeoutError"
        /\ sleeps[v] >= 1

\* ---------------------------------------------------------------- C26
\* The jobs of the provider that raises a rate limit on every attempt.
AlwaysLimited == { t \in Tasks : jobs[t].provider = "mock-limited" }

\* C26: a job whose provider raises a rate-limit failure on every attempt
\* ends, whatever max_retries is, with exactly one measurement, which has
\* success = false, error_type = "rate_limit", attempts = max_retries + 1
\* and retry_count = max_retries; until then it has made no more attempts
\* than that.
C26_AlwaysRateLimited ==
    \A t \in AlwaysLimited :
        /\ locals[t].attempts <= engine.max_retries + 1
        /\ pc[t] = "done" =>
            /\ result[t].success = FALSE
            /\ result[t].error_type = "rate_limit"
            /\ result[t].attempts = engine.max_retries + 1
            /\ result[t].retry_count = engine.max_retries
            /\ sleeps[t] = engine.max_retries
        /\ enginePc = "returned" =>
            /\ pc[t] = "done"
            /\ Cardinality({ i \in 1 .. Len(returned) :
                               returned[i].provider = jobs[t].provider }) = 1
            /\ \E i \in 1 .. Len(returned) : returned[i] = result[t]

\* Scenario B: with max_retries = 2 and no jitter the run has returned the
\* measurement of the always rate-limited job, made after three attempts
\* and two backoff sleeps.
C26_Witness ==
    /\ enginePc = "returned"
    /\ engine.max_retries = 2
    /\ engine.backoff_jitter = 0
    /\ \E t \in AlwaysLimited :
        /\ result[t].attempts = 3
        /\ result[t].retry_count = 2
        /\ result[t].error_type = "rate_limit"
        /\ Len(delays[t]) = 2

\* ---------------------------------------------------------------- C27
\* C27: an attempt that the provider answers within the deadline ends its
\* job with a successful measurement whose addresses are the list the
\* provider returned on that attempt, element for element in the same
\* order, and whose error fields are None; this is so for an answer of no
\* address at all, which is a success and not an error; and a job whose
\* first attempt is answered has attempts = 1 and retry_count = 0.
C27_SuccessCarriesTheAnswer ==
    \A t \in Tasks :
        /\ raised[t] = "returned" =>
            /\ pc[t] = "done"
            /\ result[t].success
            /\ result[t].addresses = answer[t]
            /\ Len(result[t].addresses) = Len(answer[t])
            /\ result[t].error_type = None
            /\ result[t].error_message = None
            /\ Len(starts[t]) = 1 =>
                    result[t].attempts = 1 /\ result[t].retry_count = 0
        /\ (pc[t] = "done" /\ result[t].success) => raised[t] = "returned"

\* One job was answered with no address on its first attempt and is a
\* success with empty addresses; another was answered with two addresses,
\* which its measurement lists in the order the resolver gave them.
C27_Witness ==
    \E t, u \in Done :
        /\ raised[t] = "returned"
        /\ answer[t] = <<>>
        /\ result[t].success
        /\ result[t].addresses = <<>>
        /\ result[t].attempts = 1
        /\ raised[u] = "returned"
        /\ Len(answer[u]) = 2
        /\ answer[u][1] # answer[u][2]
        /\ result[u].addresses[1] = answer[u][1]
        /\ result[u].addresses[2] = answer[u][2]

\* ---------------------------------------------------------------- C28
\* C28: BenchmarkRunner.run() returns exactly |providers| x |domains| x
\* iterations results whatever the order in which the worker threads
\* complete: each (provider, domain) pair is in exactly `iterations` of them,
\* and a future that raised gives one failed result (latency 0.0, success
\* false) in the place where it was yielded.
C28_OneResultPerSubmission ==
    runner.pc = "returned" =>
        /\ Len(runner.returned)
             = Len(runner.providers) * Len(runner.domains) * runner.iterations
        /\ \A i \in 1 .. Len(runner.providers) : \A j \in 1 .. Len(runner.domains) :
             Cardinality({ k \in 1 .. Len(runner.returned) :
                             /\ runner.returned[k].provider = runner.providers[i]
                             /\ runner.returned[k].domain = runner.domains[j] })
               = runner.iterations
        /\ Len(runner.yielded) = Len(runner.returned)
        /\ \A k \in 1 .. Len(runner.yielded) :
             LET future == runner.futures[runner.yielded[k]] IN
             future.outcome.kind = "raised" =>
                /\ k <= Len(runner.returned)
                /\ runner.returned[k].provider = future.provider
                /\ runner.returned[k].domain = future.domain
                /\ runner.returned[k].latency_ms = 0
                /\ runner.returned[k].success = FALSE

\* Three futures were yielded out of submission order, one of which raised
\* and one of which succeeded.
C28_Witness ==
    /\ runner.pc = "returned"
    /\ Len(runner.returned) = 3
    /\ runner.yielded[1] = 3
    /\ \E f \in Futures : runner.futures[f].outcome.kind = "raised"
    /\ \E k \in 1 .. Len(runner.returned) : runner.returned[k].success

\* ---------------------------------------------------------------- C29
\* The failure kind of an exception of class cls: the most specific of
\* NXDOMAIN, NoAnswer, Timeout, NoNameservers it is an instance of,
\* DNSException for any other DNS exception, Error for anything else.
FailureKind(cls) ==
    CASE IsDnsInstance(cls, "NXDOMAIN") -> "NXDOMAIN"
      [] IsDnsInstance(cls, "NoAnswer") -> "NoAnswer"
      [] IsDnsInstance(cls, "Timeout") -> "Timeout"
      [] IsDnsInstance(cls, "NoNameservers") -> "NoNameservers"
      [] IsDnsInstance(cls, "DNSException") -> "DNSException"
      [] OTHER -> "Error"

\* The texts an error message can carry after the name of its kind.
MessageTexts ==
    { "Domain does not exist", "No A record found", "Query exceeded time limit",
      "Unable to reach nameserver" } \cup { exc.msg : exc \in ResolveRaises }

\* message starts with the name of kind, followed by a colon.
Names(message, kind) == \E text \in MessageTexts : message = kind \o ": " \o text

\* The futures in which resolver.resolve was called and has answered or
\* raised.
Resolved ==
    { f \in Futures : runner.futures[f].state = "finished"
                      /\ runner.futures[f].outcome.kind # "raised" }

ResultsOf(p) == { i \in 1 .. Len(analyzer.results) : analyzer.results[i].provider = p }

SuccessesOf(p) == { i \in ResultsOf(p) : analyzer.results[i].success }

\* The sum of the latencies of the results numbered in S.
RECURSIVE LatencySum(_)
LatencySum(S) ==
    IF S = {} THEN 0
    ELSE LET i == CHOOSE i \in S : TRUE
         IN analyzer.results[i].latency_ms + LatencySum(S \ { i })

Registered == { n \in ServiceNames : container.services[n] # Unregistered }

\* C31: caching follows the singleton flag of the latest registration of a
\* name, over any sequence of register and get calls. With singleton=True
\* the factory is invoked at most once and every get returns the same
\* cached object. With singleton=False nothing is cached and every get
\* invokes the factory that is registered now: as many invocations as gets,
\* each returning an object of that factory.
C31_CachingFollowsSingletonFlag ==
    \A n \in Registered :
        LET got == container.got[n] IN
        IF container.singleton[n]
        THEN /\ container.invoked[n] <= 1
             /\ \A i, j \in 1 .. Len(got) : got[i] = got[j]
        ELSE /\ container.singletons[n] \in { NotCached, NoObject }
             /\ container.services[n].callable =>
                  /\ container.invoked[n] = Len(got)
                  /\ \A i \in 1 .. Len(got) :
                       got[i] = NoObject \/ got[i].maker = container.services[n].id

\* A name registered with singleton=True and got, then registered again
\* without the flag and with another factory, and got again: get returned
\* the object the first factory had made.
C31_StaleInstance ==
    \E n \in Registered :
        /\ ~container.singleton[n]
        /\ container.services[n].id = "make_b"
        /\ container.got[n] # <<>>
        /\ container.got[n][1].maker = "make_a"

\* ---------------------------------------------------------------- C32
\* The place in xs of the first resolver with the address of r.
FirstWith(xs, r) ==
    CHOOSE i \in 1 .. Len(xs) :
        /\ xs[i].address = r.address
        /\ \A j \in 1 .. i - 1 : xs[j].address # r.address

\* C32: the list detect_resolvers and parse_override_addresses return never
\* holds two entries with the same normalised address; it holds, for every
\* address that was found, the first resolver found with it, and these in
\* the order in which they were first found.
C32_FirstOccurrencesInOrder ==
    detection.pc = "returned" =>
        LET found == detection.found
            kept  == detection.report.resolvers
        IN
        /\ \A i, j \in 1 .. Len(kept) :
             IpAddress(kept[i].address).text = IpAddress(kept[j].address).text => i = j
        /\ { kept[i].address : i \in 1 .. Len(kept) }
             = { found[i].address : i \in 1 .. Len(found) }
        /\ \A i \in 1 .. Len(kept) : kept[i] = found[FirstWith(found, kept[i])]
        /\ \A i, j \in 1 .. Len(kept) :
             i < j => FirstWith(found, kept[i]) < FirstWith(found, kept[j])

\* detect_resolvers found an address, then another, then the first again
\* on a later line, and returned two resolvers.
C32_Witness ==
    /\ detection.pc = "returned"
    /\ detection.call = "detect_resolvers"
    /\ Len(detection.found) = 3
    /\ detection.found[1].address = detection.found[3].address
    /\ detection.found[1] # detection.found[3]
    /\ detection.found[2].address # detection.found[1].address
    /\ Len(detection.report.resolvers) = 2

\* ---------------------------------------------------------------- C33
\* The messages _build_resolver writes for an invalid candidate.
SkippingMessages ==
    { SkippingMessage(Cleaned(c), source) :
        c \in Candidates,
        source \in { "/etc/resolv.conf", "home.nmconnection", "scutil --dns",
                     "ipconfig /all" } }

\* A candidate text that is no IPv4 or IPv6 address, and one that still has
\* text once blanks and square brackets around it are stripped.
NotAnAddress(c) == ~IpAddress(Cleaned(c.text)).valid

HasText(c) == Cleaned(c.text) # ""

\* An exception left the platform's detector.
DetectionFailed ==
    \E i \in 1 .. Len(detection.report.errors) :
        \E cls \in { "OSError", "UnicodeDecodeError" } :
            detection.report.errors[i] = "Unexpected detection failure: " \o cls

\* detect_resolvers has returned and the candidates in `reported`, and only
\* they, are each reported by one entry of report.errors that names the
\* text, in the order in which they were met; no resolver of the report has
\* an invalid address; and, unless an exception ended the detection, every
\* valid candidate was found, the ones that follow an invalid one included.
SkippedAndReported(reported) ==
    LET skipped == SelectSeq(detection.report.errors,
                             LAMBDA e : e \in SkippingMessages)
        valid   == SelectSeq(detection.candidates, LAMBDA c : ~NotAnAddress(c))
    IN
    /\ Len(skipped) = Len(reported)
    /\ \A i \in 1 .. Len(reported) :
         skipped[i] = SkippingMessage(Cleaned(reported[i].text), reported[i].source)
    /\ \A i \in 1 .. Len(detection.report.resolvers) :
         IpAddress(detection.report.resolvers[i].address).valid
    /\ ~DetectionFailed =>
         /\ Len(detection.found) = Len(valid)
         /\ \A i \in 1 .. Len(valid) :
              detection.found[i].address = IpAddress(Cleaned(valid[i].text)).text

\* C33 as stated: during detect_resolvers every candidate that is not a
\* valid IPv4/IPv6 address is skipped and reported in report.errors by one
\* entry naming the invalid text, is never added to report.resolvers, and
\* does not keep the valid candidates after it from being detected.
C33_EveryInvalidCandidateReported ==
    detection.pc = "returned" /\ detection.call = "detect_resolvers" =>
        SkippedAndReported(SelectSeq(detection.candidates, NotAnAddress))

\* C33, amended: the same for every invalid candidate that still has text
\* once blanks and square brackets are stripped; a candidate of which
\* nothing is left ("[]", or nothing after the colon) is skipped without an
\* entry in report.errors.
C33_InvalidTextReported ==
    detection.pc = "returned" /\ detection.call = "detect_resolvers" =>
        SkippedAndReported(SelectSeq(detection.candidates,
                                     LAMBDA c : NotAnAddress(c) /\ HasText(c)))

\* An invalid candidate was reported and the valid candidate after it was
\* detected.
C33_Witness ==
    /\ detection.pc = "returned"
    /\ detection.call = "detect_resolvers"
    /\ Len(detection.candidates) = 2
    /\ NotAnAddress(detection.candidates[1]) /\ HasText(detection.candidates[1])
    /\ ~NotAnAddress(detection.candidates[2])
    /\ Len(detection.report.errors) = 1
    /\ Len(detection.report.resolvers) = 1

\* ---------------------------------------------------------------- C34
\* The place in xs of the first text equal to x.
FirstOf(xs, x) ==
    CHOOSE i \in 1 .. Len(xs) : xs[i] = x /\ \A j \in 1 .. i - 1 : xs[j] # x

\* C34: get_local_resolvers returns, and never an empty list: exactly
\* ['127.0.0.1'] when detection failed, the platform is unsupported or no
\* valid resolver was found; otherwise the valid addresses that were
\* detected, each once, in the order in which they were first seen.
C34_NeverEmptyNeverRaises ==
    /\ local.pc # "raised"
    /\ local.pc = "returned" =>
        LET parsed == local.parsed
            out    == local.returned
        IN
        /\ out # <<>>
        /\ (local.sys.source.raises # None \/ local.sys.system = "freebsd")
             => parsed = <<>>
        /\ parsed = <<>> => out = << "127.0.0.1" >>
        /\ parsed # <<>> =>
             /\ \A i \in 1 .. Len(out) : IsValidIp(out[i])
             /\ { out[i] : i \in 1 .. Len(out) } = { parsed[i] : i \in 1 .. Len(parsed) }
             /\ \A i, j \in 1 .. Len(out) : out[i] = out[j] => i = j
             /\ \A i, j \in 1 .. Len(out) :
                  i < j => FirstOf(parsed, out[i]) < FirstOf(parsed, out[j])

\* Three valid texts were parsed, the third repeating the first, and two
\* were returned.
C34_Witness ==
    /\ local.pc = "returned"
    /\ Len(local.parsed) = 3
    /\ local.parsed[1] = local.parsed[3]
    /\ local.parsed[2] # local.parsed[1]
    /\ Len(local.returned) = 2

\* -------------------------------------------------------------------- C35
\* The error_type a failure of class cls is reported under.
Classification(cls) ==
    IF IsInstance(cls, "ProviderRateLimitError") THEN "rate_limit" ELSE cls

\* The class of what the attempt-th query of task t's provider raised.
FailureOf(t, attempt) ==
    (CHOOSE exc \in MockedRaises(jobs[t].provider, attempt) : TRUE).cls

\* C35: a job has one retry budget for rate limits and query failures
\* together: whatever the kinds of its failed attempts, it sleeps and
\* retries at most max_retries times in all, and its terminal measurement
\* counts every retry and carries the error_type of its last attempt's
\* failure, not that of the attempt before.
C35_SharedRetryBudget ==
    \A t \in Tasks :
        /\ sleeps[t] <= engine.max_retries
        /\ locals[t].retries <= sleeps[t]
        /\ pc[t] = "done" =>
            /\ ~result[t].success
            /\ result[t].retry_count = sleeps[t]
            /\ result[t].attempts = sleeps[t] + 1
            /\ raised[t] = FailureOf(t, result[t].attempts)
            /\ result[t].error_type = Classification(FailureOf(t, result[t].attempts))
            /\ result[t].attempts >= 2 =>
                    result[t].error_type
                        # Classification(FailureOf(t, result[t].attempts - 1))

\* C35 witness: with a budget of two retries, one job has ended with
\* "rate_limit" after a rate limit, a query failure and a rate limit, and
\* another with "ProviderQueryError" after the opposite sequence.
C35_Witness ==
    \E t, u \in Tasks :
        /\ engine.max_retries = 2
        /\ pc[t] = "done" /\ pc[u] = "done"
        /\ jobs[t].provider = "mock-flapping"
        /\ jobs[u].provider = "mock-flipping"
        /\ result[t].retry_count = 2 /\ result[t].error_type = "rate_limit"
        /\ result[u].retry_count = 2 /\ result[u].error_type = "ProviderQueryError"

\* -------------------------------------------------------------------- C36
\* The tasks that hold a limiter slot they have not given back.
Holders == { t \in Tasks : acquires[t] > releases[t] }

\* C36: when run() has returned, every job has taken one limiter slot and
\* given it back, however it ended: the free slots are `concurrency` again
\* and nobody holds a slot or waits for one. A later run() on the same
\* engine therefore starts with every slot free, and a job of it waits only
\* while jobs of that run are past the gate.
C36_SlotsReleasedWhenRunReturns ==
    /\ enginePc = "returned" =>
            /\ semValue = engine.concurrency
            /\ semWaiters = <<>>
            /\ Holders = {}
            /\ \A t \in Tasks : /\ pc[t] = "done"
                                 /\ acquires[t] = 1
                                 /\ releases[t] = 1
    /\ enginePc = "ready" => semValue = engine.concurrency /\ semWaiters = <<>>
    /\ enginePc = "running" =>
            /\ semValue + Cardinality(PastGate) = engine.concurrency
            /\ \A t \in Tasks : pc[t] = "waiting" => PastGate # {}

\* C36 witness: on an engine of one slot and one retry, a first run ended
\* its jobs with a success, a timeout, an unexpected failure and a used-up
\* retry budget, and a second run() on the same engine has returned its
\* four measurements as well.
C36_Witness ==
    /\ twin.runs = 2
    /\ enginePc = "returned"
    /\ engine.concurrency = 1
    /\ Len(returned) = 4
    /\ \E i, j, k, l \in 1 .. Len(twin.returned) :
        /\ twin.returned[i].success
        /\ twin.returned[j].error_type = "timeout"
        /\ twin.returned[k].error_type = "ValueError"
        /\ twin.returned[l].error_type = "rate_limit"
        /\ twin.returned[l].retry_count = engine.max_retries

\* -------------------------------------------------------------------- C37
\* C37: engine.measurements changes only in the step in which run()
\* returns, and then becomes the list run() returns. Until the first run()
\* returns it is empty; during a second run() it still is the first run's
\* batch, and when the second run() returns it is the second batch alone,
\* one measurement per job of that run.
C37_MeasurementsWrittenOncePerRun ==
    /\ [](/\ (twin.runs = 1 /\ enginePc # "returned") => selfMeasurements = <<>>
          /\ (twin.runs = 2 /\ enginePc # "returned") =>
                    selfMeasurements = twin.returned
          /\ enginePc = "returned" =>
                    /\ selfMeasurements = returned
                    /\ Len(selfMeasurements) = Len(jobs)
                    /\ \A t \in Tasks :
                        Cardinality({ i \in 1 .. Len(selfMeasurements) :
                                        selfMeasurements[i] = result[t] }) = 1)
    /\ [][selfMeasurements' # selfMeasurements =>
            /\ enginePc = "running"
            /\ enginePc' = "returned"
            /\ selfMeasurements' = returned']_vars

\* C37 witness: a second run() is in progress, with measurements gathered,
\* while engine.measurements holds the four measurements of the first run.
C37_Witness ==
    /\ twin.runs = 2
    /\ enginePc = "running"
    /\ Len(measurements) >= 2
    /\ Len(selfMeasurements) = 4
    /\ selfMeasurements = twin.returned

\* -------------------------------------------------------------------- C38
\* C38: a measurement with success = false lists no address, whatever the
\* outcomes of its job's attempts were and however often it was retried; a
\* job that has not been answered has no address in its locals either.
C38_FailureHasNoAddresses ==
    /\ \A m \in AllMeasurements : ~m.success => m.addresses = <<>>
    /\ \A t \in Tasks : raised[t] # "returned" => locals[t].addresses = <<>>

\* C38 witness: run() has returned a failure that was retried, a failure on
\* a first attempt and a success that lists an address.
C38_Witness ==
    /\ enginePc = "returned"
    /\ \E i, j, k \in 1 .. Len(returned) :
        /\ ~returned[i].success /\ returned[i].retry_count >= 1
                                /\ returned[i].addresses = <<>>
        /\ ~returned[j].success /\ returned[j].attempts = 1
        /\ returned[k].success /\ returned[k].addresses # <<>>

\* -------------------------------------------------------------------- C39
\* C39: an engine given iterations <= 0, with providers and domains, is
\* accepted and stores iterations as given; its run() builds no job and
\* creates no task, so no limiter slot is taken, nothing is queried or
\* logged, and run() can only return, with an empty list, and never raises.
C39_NoIterationNoJob ==
    (engine.iterations <= 0 /\ engine.providers # <<>> /\ engine.domains # <<>>) =>
        /\ enginePc \in { "ready", "running", "returned" }
        /\ jobs = <<>>
        /\ pc = <<>> /\ acquires = <<>> /\ starts = <<>> /\ answer = <<>>
        /\ semValue = engine.concurrency /\ semWaiters = <<>>
        /\ completed = <<>> /\ measurements = <<>> /\ logged = <<>>
        /\ returned = <<>> /\ selfMeasurements = <<>>
        /\ enginePc = "ready" => ENABLED Run
        /\ enginePc = "running" => ENABLED Return

\* C39 witness: the run() of an engine of iterations = -1 has returned the
\* empty list.
C39_Witness ==
    /\ engine.iterations = -1
    /\ engine.providers # <<>>
    /\ enginePc = "returned"
    /\ returned = <<>>

\* -------------------------------------------------------------------- C40
\* Some piece of some entry is an address once its brackets are stripped.
SomeValid(entries) ==
    \E i \in 1 .. Len(entries) : \E j \in 1 .. Len(entries[i]) :
        IpAddress(Cleaned(entries[i][j])).valid

\* The command line names at least one valid manual override, with
\* --resolver or in the 'resolvers' list of a config file that loads.
HasValidOverride ==
    \/ SomeValid(cli.args.resolvers)
    \/ /\ cli.args.config.given
       /\ cli.args.config.raises = None
       /\ cli.args.config.data = "dict-with-resolvers"
       /\ SomeValid(cli.args.config.resolvers)

\* /etc/resolv.conf can be read and has a nameserver line whose first
\* token is an address.
SomeNameserver ==
    /\ cli.platform.resolv_conf.raises = None
    /\ \E i \in 1 .. Len(cli.platform.resolv_conf.lines) :
        LET line == cli.platform.resolv_conf.lines[i] IN
        /\ line.key = "nameserver"
        /\ line.pieces # <<>>
        /\ IpAddress(Cleaned(line.pieces[1])).valid

\* C40: when main returns, its stage is "detected" if the detection pass
\* found a resolver (the active resolvers are then the detected ones, no
\* manual override among them), else "system" if getaddrinfo answered, else
\* "override" if there is a valid manual override (the active resolvers are
\* then the overrides), else "none"; the exit code is 1 if the stage is
\* "none" and 0 otherwise, and a printed summary names the same stage.
C40_StageByPriority ==
    cli.pc = "returned" =>
        LET found == cli.report.resolvers # <<>> IN
        /\ cli.report = DetectResolvers(cli.platform)
        /\ found <=> SomeNameserver
        /\ cli.manual_resolvers # <<>> <=> HasValidOverride
        /\ cli.stage = IF found THEN "detected"
                       ELSE IF cli.getaddrinfo = "returned" THEN "system"
                       ELSE IF HasValidOverride THEN "override"
                       ELSE "none"
        /\ cli.stage = "detected" =>
                /\ cli.active_resolvers = cli.report.resolvers
                /\ \A i \in 1 .. Len(cli.active_resolvers) :
                        cli.active_resolvers[i].source # "manual"
        /\ cli.stage = "system" => cli.active_resolvers = << SystemResolverPlaceholder >>
        /\ cli.stage = "override" => cli.active_resolvers = cli.manual_resolvers
        /\ cli.stage = "none" => cli.active_resolvers = <<>>
        /\ cli.code \in { 0, 1 }
        /\ cli.code = 1 <=> cli.stage = "none"
        /\ cli.args.summary => /\ Len(cli.printed) = 1
                               /\ cli.printed[1].stage = cli.stage

\* C40 witness: detection found nothing, getaddrinfo raised gaierror and a
\* config file gave a valid override: main has returned 0 at stage
\* "override" with the override as the active resolver.
C40_Witness ==
    /\ cli.pc = "returned"
    /\ cli.stage = "override"
    /\ cli.code = 0
    /\ cli.args.resolvers = <<>>
    /\ cli.args.config.given
    /\ Len(cli.active_resolvers) = 1
    /\ cli.active_resolvers[1].address = "8.8.8.8"
    /\ cli.report.errors # <<>>

====
